---- MODULE Spec2Model ----
(***************************************************************************)
(* Model of text_scrubber.geo: the bounds cache, the bucketed resource     *)
(* index, the two-stage similarity search, the location normalizers and    *)
(* the substring extractor.                                                *)
(*                                                                         *)
(* Strings are sequences of one-character strings.  Scores are exact       *)
(* fractions <<numerator, denominator>> in lowest terms, so that equal     *)
(* scores are equal values.                                                *)
(***************************************************************************)
EXTENDS Integers, Sequences, FiniteSets, TLC

(***************************************************************************)
(* Characters and strings                                                  *)
(***************************************************************************)

\* The printable ASCII characters in code-point order (32 .. 126); the grave
\* accent (96), which a TLA+ string cannot hold, is written GRAVE.
ASCII ==
    <<" ", "!", "\"", "#", "$", "%", "&", "'", "(", ")", "*", "+", ",", "-", ".", "/", "0", "1",
      "2", "3", "4", "5", "6", "7", "8", "9", ":", ";", "<", "=", ">", "?", "@", "A", "B", "C",
      "D", "E", "F", "G", "H", "I", "J", "K", "L", "M", "N", "O", "P", "Q", "R", "S", "T", "U",
      "V", "W", "X", "Y", "Z", "[", "\\", "]", "^", "_", "GRAVE", "a", "b", "c", "d", "e", "f", "g",
      "h", "i", "j", "k", "l", "m", "n", "o", "p", "q", "r", "s", "t", "u", "v", "w", "x", "y",
      "z", "{", "|", "}", "~">>

AsciiChars == {ASCII[i] : i \in 1..Len(ASCII)}

\* ord(): the code point of a character.
OrdMap == [c \in AsciiChars |-> 31 + (CHOOSE i \in 1..Len(ASCII) : ASCII[i] = c)]

Ord(c) == OrdMap[c]

IsUpperChar(c) == Ord(c) >= 65 /\ Ord(c) <= 90

IsLowerChar(c) == Ord(c) >= 97 /\ Ord(c) <= 122

IsDigitChar(c) == Ord(c) >= 48 /\ Ord(c) <= 57

\* [a-zA-Z]
IsAlphaChar(c) == IsUpperChar(c) \/ IsLowerChar(c)

\* string.punctuation
IsPunctuation(c) == Ord(c) > 32 /\ ~IsAlphaChar(c) /\ ~IsDigitChar(c)

\* Python's whitespace among the printable ASCII characters.
IsSpaceChar(c) == c = " "

LowerChar(c) == IF IsUpperChar(c) THEN ASCII[Ord(c) - 31 + 32] ELSE c

UpperChar(c) == IF IsLowerChar(c) THEN ASCII[Ord(c) - 31 - 32] ELSE c

\* str.lower() / str.upper()
Lower(s) == [i \in 1..Len(s) |-> LowerChar(s[i])]

Upper(s) == [i \in 1..Len(s) |-> UpperChar(s[i])]

\* str.isupper(): at least one cased character and no lowercase character.
IsUpper(s) ==
    /\ \E i \in 1..Len(s) : IsUpperChar(s[i])
    /\ \A i \in 1..Len(s) : ~IsLowerChar(s[i])

\* s[from : to] with 0-based, half-open Python slice indices (clamped).
Slice(s, from, to) ==
    LET hi == IF to > Len(s) THEN Len(s) ELSE to
    IN  IF from >= hi THEN << >> ELSE SubSeq(s, from + 1, hi)

\* c * n
RECURSIVE Rep(_, _)
Rep(c, n) == IF n <= 0 THEN << >> ELSE <<c>> \o Rep(c, n - 1)

\* Python's string order: lexicographic on code points, a prefix first.
RECURSIVE StrLess(_, _)
StrLess(s, t) ==
    IF t = << >> THEN FALSE
    ELSE IF s = << >> THEN TRUE
    ELSE IF s[1] # t[1] THEN Ord(s[1]) < Ord(t[1])
    ELSE StrLess(Tail(s), Tail(t))

\* The strings of length n over the characters cs.
RECURSIVE StringsOfLen(_, _)
StringsOfLen(cs, n) ==
    IF n = 0 THEN {<< >>}
    ELSE {<<c>> \o s : c \in cs, s \in StringsOfLen(cs, n - 1)}

\* The strings of length lo .. hi over the characters cs.
StringsUpTo(cs, lo, hi) == UNION {StringsOfLen(cs, n) : n \in lo..hi}

\* str.split(): the maximal runs of non-whitespace characters.
RECURSIVE SplitWs(_, _)
SplitWs(s, cur) ==
    IF s = << >> THEN (IF cur = << >> THEN << >> ELSE <<cur>>)
    ELSE IF IsSpaceChar(s[1])
         THEN (IF cur = << >> THEN << >> ELSE <<cur>>) \o SplitWs(Tail(s), << >>)
         ELSE SplitWs(Tail(s), Append(cur, s[1]))

Split(s) == SplitWs(s, << >>)

\* sep.join(tokens)
RECURSIVE Join(_, _)
Join(tokens, sep) ==
    IF tokens = << >> THEN << >>
    ELSE IF Len(tokens) = 1 THEN tokens[1]
    ELSE tokens[1] \o sep \o Join(Tail(tokens), sep)

\* s.rstrip(chars)
RECURSIVE RStrip(_, _)
RStrip(s, chars) ==
    IF s # << >> /\ s[Len(s)] \in chars THEN RStrip(SubSeq(s, 1, Len(s) - 1), chars) ELSE s

SeqToSet(xs) == {xs[i] : i \in 1..Len(xs)}

(***************************************************************************)
(* Cleaning (text_scrubber.geo.clean)                                      *)
(***************************************************************************)

GEO_TOKEN_MAP(token) ==
    CASE token = <<"a", "f", "r">> -> <<"a", "f", "r", "i", "c", "a", "n">>
      [] token = <<"b", "r", "i", "t">> -> <<"b", "r", "i", "t", "t", "i", "s", "h">>
      [] token = <<"c", "e", "n", "t">> -> <<"c", "e", "n", "t", "r", "a", "l">>
      [] token = <<"d", "e", "m">> -> <<"d", "e", "m", "o", "c", "r", "a", "t", "i", "c">>
      [] token = <<"d", "e", "m", "o", "c", "r", "a", "t", "i", "q", "u", "e">>
            -> <<"d", "e", "m", "o", "c", "r", "a", "t", "i", "c">>
      [] token = <<"d", "e", "m", "o", "k", "r", "a", "t", "i", "s", "c", "h", "e">>
            -> <<"d", "e", "m", "o", "c", "r", "a", "t", "i", "c">>
      [] token = <<"e", "q", "u", "a", "t">> -> <<"e", "q", "u", "a", "t", "o", "r", "i", "a", "l">>
      [] token = <<"f", "e", "d">> -> <<"f", "e", "d", "e", "r", "a", "l">>
      [] token = <<"i", "s">> -> <<"i", "s", "l", "a", "n", "d", "s">>
      [] token = <<"i", "s", "l">> -> <<"i", "s", "l", "a", "n", "d", "s">>
      [] token = <<"i", "s", "l", "a">> -> <<"i", "s", "l", "a", "n", "d", "s">>
      [] token = <<"i", "s", "l", "a", "n", "d">> -> <<"i", "s", "l", "a", "n", "d", "s">>
      [] token = <<"m", "o", "n", "t", "e", "n", "e", "g">>
            -> <<"m", "o", "n", "t", "e", "n", "e", "g", "r", "o">>
      [] token = <<"n", "e", "t", "h">> -> <<"n", "e", "t", "h", "e", "r", "l", "a", "n", "d", "s">>
      [] token = <<"r", "e", "p">> -> <<"r", "e", "p", "u", "b", "l", "i", "c">>
      [] token = <<"r", "e", "p", "u", "b", "l">> -> <<"r", "e", "p", "u", "b", "l", "i", "c">>
      [] token = <<"r", "e", "p", "u", "b", "l", "i", "k">> -> <<"r", "e", "p", "u", "b", "l", "i", "c">>
      [] token = <<"r", "e", "p", "u", "b", "l", "i", "q", "u", "e">>
            -> <<"r", "e", "p", "u", "b", "l", "i", "c">>
      [] token = <<"s", "i", "n", "t">> -> <<"s", "a", "i", "n", "t">>
      [] token = <<"s", "t">> -> <<"s", "a", "i", "n", "t">>
      [] token = <<"t", "e", "r">> -> <<"t", "e", "r", "r", "i", "t", "o", "r", "y">>
      [] token = <<"t", "e", "r", "r", "i", "t", "o", "r", "i", "e", "s">>
            -> <<"t", "e", "r", "r", "i", "t", "o", "r", "y">>
      [] OTHER -> token

\* The stop words removed before lowercasing (case sensitive).
GEO_STOP_WORDS_CASED ==
    {<<"a">>, <<"a", "n">>, <<"a", "n", "d">>, <<"d", "e", "r">>, <<"d", "a">>, <<"d", "i">>,
     <<"d", "o">>, <<"e">>, <<"l", "e">>, <<"i", "m">>, <<"m", "a", "i", "l">>}

\* The stop words removed after token substitution.
GEO_STOP_WORDS ==
    {<<"c", "e", "d", "e", "x">>, <<"e", "m", "a", "i", "l">>, <<"o", "f">>, <<"t", "h", "e">>}

\* RE_TOKENIZE: the characters a token ends at.
IsTokenSeparator(c) ==
    c \in {".", ",", "!", "?", ":", ";", "*", "-", "(", ")", "[", "]", "_", "\\", "/"}
    \/ IsSpaceChar(c)

\* RE_TOKENIZE.split(s): unlike str.split() it yields an empty token before a
\* leading and after a trailing separator run.
RECURSIVE ReSplit(_, _, _)
ReSplit(s, cur, inSep) ==
    IF s = << >> THEN <<cur>>
    ELSE IF IsTokenSeparator(s[1])
         THEN (IF inSep THEN << >> ELSE <<cur>>) \o ReSplit(Tail(s), << >>, TRUE)
         ELSE ReSplit(Tail(s), Append(cur, s[1]), FALSE)

Tokenize(s) == ReSplit(s, << >>, FALSE)

KeepNotDigit(c) == ~IsDigitChar(c)

KeepNotPunctuation(c) == ~IsPunctuation(c)

KeepCasedStopWord(t) == IsUpper(t) \/ t \notin GEO_STOP_WORDS_CASED

KeepNonEmpty(t) == t # << >>

KeepStopWord(t) == IsUpper(t) \/ Lower(t) \notin GEO_STOP_WORDS

\* .sub(r'-|/|&|,', ' ')
SubSeparators(s) == [i \in 1..Len(s) |-> IF s[i] \in {"-", "/", "&", ","} THEN " " ELSE s[i]]

\* _GEO_STRING_SCRUBBER.transform on one string.  to_ascii is the identity on
\* the ASCII strings of the model.
clean_geo_string(s) ==
    LET no_digits == SelectSeq(s, KeepNotDigit)
        subbed    == SubSeparators(no_digits)
        no_punct  == SelectSeq(subbed, KeepNotPunctuation)
        tokens    == Tokenize(no_punct)
        kept      == SelectSeq(tokens, KeepCasedStopWord)
        lowered   == [i \in 1..Len(kept) |-> Lower(kept[i])]
        filtered  == SelectSeq(lowered, KeepNonEmpty)
        replaced  == [i \in 1..Len(filtered) |-> GEO_TOKEN_MAP(filtered[i])]
        final     == SelectSeq(replaced, KeepStopWord)
    IN  Join(final, <<" ">>)

clean_country(s) == clean_geo_string(s)

clean_region(s) == clean_geo_string(s)

clean_city(s) == clean_geo_string(s)

(***************************************************************************)
(* Scores                                                                  *)
(***************************************************************************)

Min(a, b) == IF a <= b THEN a ELSE b

Max(a, b) == IF a >= b THEN a ELSE b

RECURSIVE Gcd(_, _)
Gcd(a, b) == IF b = 0 THEN a ELSE Gcd(b, a % b)

\* The float n / d, as a fraction in lowest terms (d > 0, n >= 0).
Frac(n, d) == LET g == Gcd(n, d) IN <<n \div g, d \div g>>

Zero == <<0, 1>>

One == <<1, 1>>

\* a < b, a <= b on scores
ScoreLt(a, b) == a[1] * b[2] < b[1] * a[2]

ScoreLe(a, b) == a[1] * b[2] <= b[1] * a[2]

\* 1.0 - a is not needed: every score is computed as one division.

(***************************************************************************)
(* Levenshtein.ratio (python-Levenshtein)                                  *)
(***************************************************************************)

Min3(a, b, c) == Min(a, Min(b, c))

\* One row of the edit-distance table: prev is the row of the previous
\* character of s, acc the part of this row filled so far (columns 0 ..).
\* A substitution costs 2, an insertion or a deletion 1.
RECURSIVE EditRow(_, _, _, _)
EditRow(prev, c, t, acc) ==
    IF Len(acc) = Len(prev) THEN acc
    ELSE CHOOSE row \in
             {EditRow(prev, c, t, next) :
                  next \in {LET j == Len(acc)
                            IN  Append(acc, Min3(prev[j + 1] + 1, acc[j] + 1,
                                                 prev[j] + (IF t[j] = c THEN 0 ELSE 2)))}} :
             TRUE

RECURSIVE EditRows(_, _, _)
EditRows(s, t, prev) ==
    IF s = << >> THEN prev
    ELSE CHOOSE rows \in
             {EditRows(Tail(s), t, row) :
                  row \in {EditRow(prev, s[1], t, <<prev[1] + 1>>)}} : TRUE

\* The edit distance Levenshtein.ratio is based on.
EditDistance(s, t) == EditRows(s, t, [j \in 1..(Len(t) + 1) |-> j - 1])[Len(t) + 1]

\* Levenshtein.ratio(s, t) == (len(s) + len(t) - distance) / (len(s) + len(t)),
\* and 1.0 for two empty strings.
LevenshteinRatio(s, t) ==
    LET lensum == Len(s) + Len(t)
    IN  IF lensum = 0 THEN One ELSE Frac(lensum - EditDistance(s, t), lensum)

(***************************************************************************)
(* Bounds (find_levenshtein_bounds, find_trigram_bounds)                   *)
(***************************************************************************)

\* while lower_bound >= 0 and Levenshtein.ratio(query, query[:lower_bound]) >= min_score
RECURSIVE LevenshteinLowerProbe(_, _, _)
LevenshteinLowerProbe(query, lower_bound, min_score) ==
    IF lower_bound >= 0
       /\ ScoreLe(min_score, LevenshteinRatio(query, Slice(query, 0, lower_bound)))
    THEN LevenshteinLowerProbe(query, lower_bound - 1, min_score)
    ELSE lower_bound

\* while Levenshtein.ratio(query, query + 'a' * (upper_bound - query_size)) >= min_score
RECURSIVE LevenshteinUpperProbe(_, _, _)
LevenshteinUpperProbe(query, upper_bound, min_score) ==
    IF ScoreLe(min_score, LevenshteinRatio(query, query \o Rep("a", upper_bound - Len(query))))
    THEN LevenshteinUpperProbe(query, upper_bound + 1, min_score)
    ELSE upper_bound

\* while lower_bound >= 0 and Levenshtein.ratio(query, 'b' * (candidate_size -
\* lower_bound) + 'a' * lower_bound) >= min_score
RECURSIVE LevenshteinOverlapProbe(_, _, _, _)
LevenshteinOverlapProbe(query, candidate_size, lower_bound, min_score) ==
    IF lower_bound >= 0
       /\ ScoreLe(min_score,
                  LevenshteinRatio(query, Rep("b", candidate_size - lower_bound)
                                          \o Rep("a", lower_bound)))
    THEN LevenshteinOverlapProbe(query, candidate_size, lower_bound - 1, min_score)
    ELSE lower_bound

\* A find_levenshtein_bounds whose range ends one size too early.
ComputeLevenshteinBounds_ShortUpper(query_size, min_score) ==
    IF min_score = Zero
    THEN [lower |-> 0, upper |-> 0, unbounded |-> TRUE, defaultdict |-> TRUE,
          overlap |-> << >>]
    ELSE LET query == Rep("a", query_size)
             lower_bound == LevenshteinLowerProbe(query, query_size, min_score)
             upper_bound == LevenshteinUpperProbe(query, query_size, min_score) - 1
         IN  [lower |-> lower_bound + 1, upper |-> upper_bound, unbounded |-> FALSE,
              defaultdict |-> FALSE,
              overlap |-> [candidate_size \in (lower_bound + 1)..(upper_bound - 1) |->
                              LevenshteinOverlapProbe(query, candidate_size, candidate_size,
                                                      min_score) + 1]]

\* A find_levenshtein_bounds whose overlap floor is the candidate size.
ComputeLevenshteinBounds_FullOverlap(query_size, min_score) ==
    IF min_score = Zero
    THEN [lower |-> 0, upper |-> 0, unbounded |-> TRUE, defaultdict |-> TRUE,
          overlap |-> << >>]
    ELSE LET query == Rep("a", query_size)
             lower_bound == LevenshteinLowerProbe(query, query_size, min_score)
             upper_bound == LevenshteinUpperProbe(query, query_size, min_score)
         IN  [lower |-> lower_bound + 1, upper |-> upper_bound, unbounded |-> FALSE,
              defaultdict |-> FALSE,
              overlap |-> [candidate_size \in (lower_bound + 1)..(upper_bound - 1) |->
                              candidate_size]]

\* What find_levenshtein_bounds computes for a (min_score, query_size) it has
\* not seen: the size range [lower, upper) (upper is np.inf when unbounded)
\* and the overlap floor of each candidate size (a defaultdict(int) when
\* min_score == 0.0: every floor is 0).
ComputeLevenshteinBounds(query_size, min_score) ==
    IF min_score = Zero
    THEN [lower |-> 0, upper |-> 0, unbounded |-> TRUE, defaultdict |-> TRUE,
          overlap |-> << >>]
    ELSE LET query == Rep("a", query_size)
             lower_bound == LevenshteinLowerProbe(query, query_size, min_score)
             upper_bound == LevenshteinUpperProbe(query, query_size, min_score)
         IN  [lower |-> lower_bound + 1, upper |-> upper_bound, unbounded |-> FALSE,
              defaultdict |-> FALSE,
              overlap |-> [candidate_size \in (lower_bound + 1)..(upper_bound - 1) |->
                              LevenshteinOverlapProbe(query, candidate_size, candidate_size,
                                                      min_score) + 1]]

\* Overlap floors that ask for one more shared character than computed.
OverlapLowerBound_Strict(bounds, size) ==
    IF bounds.defaultdict THEN 0 ELSE bounds.overlap[size] + 1

\* overlap_lower_bounds[size]
OverlapLowerBound(bounds, size) == IF bounds.defaultdict THEN 0 ELSE bounds.overlap[size]

\* trigram_similarity_naive on two sets of trigram ids
trigram_similarity_naive(string_trigrams, option_trigrams) ==
    IF Cardinality(string_trigrams) = 0 /\ Cardinality(option_trigrams) = 0 THEN One
    ELSE LET n_overlap == Cardinality(string_trigrams \cap option_trigrams)
         IN  Frac(n_overlap,
                  Cardinality(string_trigrams) + Cardinality(option_trigrams) - n_overlap)

\* while lower_bound >= 0 and trigram_similarity_naive(query, set(islice(query,
\* lower_bound))) >= min_score; query == set(range(query_size))
RECURSIVE TrigramLowerProbe(_, _, _)
TrigramLowerProbe(query_size, lower_bound, min_score) ==
    IF lower_bound >= 0
       /\ ScoreLe(min_score,
                  trigram_similarity_naive(0..(query_size - 1), 0..(lower_bound - 1)))
    THEN TrigramLowerProbe(query_size, lower_bound - 1, min_score)
    ELSE lower_bound

\* while trigram_similarity_naive(query, query | {max_int + 1 + i for i in
\* range(upper_bound - query_size)}) >= min_score
RECURSIVE TrigramUpperProbe(_, _, _)
TrigramUpperProbe(query_size, upper_bound, min_score) ==
    IF ScoreLe(min_score, trigram_similarity_naive(0..(query_size - 1), 0..(upper_bound - 1)))
    THEN TrigramUpperProbe(query_size, upper_bound + 1, min_score)
    ELSE upper_bound

\* What find_trigram_bounds computes for a (min_score, query_size) it has not
\* seen (query_size >= 1: max(query) needs a non-empty set).
ComputeTrigramBounds(query_size, min_score) ==
    IF min_score = Zero
    THEN [lower |-> 0, upper |-> 0, unbounded |-> TRUE]
    ELSE [lower |-> TrigramLowerProbe(query_size, query_size, min_score) + 1,
          upper |-> TrigramUpperProbe(query_size, query_size, min_score),
          unbounded |-> FALSE]

(***************************************************************************)
(* Dictionaries, and the global vocabularies _LEVENSHTEIN_MAP/_TRIGRAM_MAP *)
(***************************************************************************)

\* A dict is a function; d[k] = v on a dict.
EmptyDict == << >>

DictSet(d, k, v) == [x \in (DOMAIN d) \cup {k} |-> IF x = k THEN v ELSE d[x]]

RECURSIVE SumOver(_, _)
SumOver(f, keys) ==
    IF keys = {} THEN 0
    ELSE LET k == CHOOSE x \in keys : TRUE IN f[k] + SumOver(f, keys \ {k})

\* max of a non-empty set of integers
MaxOf(S) == CHOOSE x \in S : \A y \in S : y <= x

\* A vocabulary is the sequence of its symbols in the order the ids were
\* given: the symbol at position i has id i - 1.
IdOf(vocabulary, symbol) == (CHOOSE i \in 1..Len(vocabulary) : vocabulary[i] = symbol) - 1

\* Every symbol of the sequence added, known or not.
SetDefaultAll_AlwaysAppend(vocabulary, symbols) == vocabulary \o symbols

\* map.setdefault(symbol, len(map)) for each symbol of a sequence, in order.
RECURSIVE SetDefaultAll(_, _)
SetDefaultAll(vocabulary, symbols) ==
    IF symbols = << >> THEN vocabulary
    ELSE SetDefaultAll(IF symbols[1] \in SeqToSet(vocabulary) THEN vocabulary
                       ELSE Append(vocabulary, symbols[1]),
                       Tail(symbols))

\* get_char_tokens: _LEVENSHTEIN_MAP after the call, and the tokens returned.
CharMapAfter(char_map, query) == SetDefaultAll(char_map, query)

get_char_tokens(char_map, query) ==
    [i \in 1..Len(query) |-> IdOf(CharMapAfter(char_map, query), query[i])]

\* string.replace(' ', '  ')
RECURSIVE DoubleSpaces(_)
DoubleSpaces(s) ==
    IF s = << >> THEN << >>
    ELSE (IF s[1] = " " THEN <<" ", " ">> ELSE <<s[1]>>) \o DoubleSpaces(Tail(s))

\* The trigrams string[i:i + 3] of the padded string, for i in range(len - 2).
TrigramsOf(string) ==
    LET padded == <<" ", " ">> \o DoubleSpaces(string) \o <<" ", " ">>
    IN  [i \in 1..(Len(padded) - 2) |-> SubSeq(padded, i, i + 2)]

\* get_trigram_tokens: _TRIGRAM_MAP after the call, and the set returned.
TrigramMapAfter(trigram_map, string) == SetDefaultAll(trigram_map, TrigramsOf(string))

get_trigram_tokens(trigram_map, string) ==
    LET after == TrigramMapAfter(trigram_map, string)
        grams == TrigramsOf(string)
    IN  {IdOf(after, grams[i]) : i \in 1..Len(grams)}

(***************************************************************************)
(* The resource index (resources.py)                                       *)
(***************************************************************************)

\* A fresh location_dict.  lev_sizes keeps the insertion order of the
\* 'levenshtein' dict, the order _optimize_resources_dict walks it in.
EmptyLocationDict ==
    [canonical_names |-> << >>, cleaned_location_map |-> EmptyDict,
     levenshtein |-> EmptyDict, lev_sizes |-> << >>, trigrams |-> EmptyDict]

\* An _add_cleaned_location that files a string under its length plus one.
add_cleaned_location_LongerKey(st, cleaned_location, canonical_name_idx, idx) ==
    LET d == st.dict
        size == Len(cleaned_location) + 1
        lev == IF size \notin DOMAIN d.levenshtein
               THEN DictSet(d.levenshtein, size,
                            [levenshtein_tokens |-> <<cleaned_location>>,
                             indices |-> << <<canonical_name_idx, idx>> >>])
               ELSE DictSet(d.levenshtein, size,
                            [levenshtein_tokens |->
                                 Append(d.levenshtein[size].levenshtein_tokens, cleaned_location),
                             indices |->
                                 Append(d.levenshtein[size].indices, <<canonical_name_idx, idx>>)])
        lev_sizes == IF size \notin DOMAIN d.levenshtein THEN Append(d.lev_sizes, size)
                     ELSE d.lev_sizes
        trigram_tokens == get_trigram_tokens(st.trigram_map, cleaned_location)
        tsize == Cardinality(trigram_tokens)
        tri == IF tsize \notin DOMAIN d.trigrams
               THEN DictSet(d.trigrams, tsize,
                            [trigram_tokens |-> <<trigram_tokens>>,
                             indices |-> << <<canonical_name_idx, idx>> >>])
               ELSE DictSet(d.trigrams, tsize,
                            [trigram_tokens |->
                                 Append(d.trigrams[tsize].trigram_tokens, trigram_tokens),
                             indices |->
                                 Append(d.trigrams[tsize].indices, <<canonical_name_idx, idx>>)])
    IN  [dict |-> [d EXCEPT !.levenshtein = lev, !.lev_sizes = lev_sizes, !.trigrams = tri],
         trigram_map |-> TrigramMapAfter(st.trigram_map, cleaned_location)]

\* _add_cleaned_location, on the pair (resources_dict, _TRIGRAM_MAP)
add_cleaned_location(st, cleaned_location, canonical_name_idx, idx) ==
    LET d == st.dict
        size == Len(cleaned_location)
        lev == IF size \notin DOMAIN d.levenshtein
               THEN DictSet(d.levenshtein, size,
                            [levenshtein_tokens |-> <<cleaned_location>>,
                             indices |-> << <<canonical_name_idx, idx>> >>])
               ELSE DictSet(d.levenshtein, size,
                            [levenshtein_tokens |->
                                 Append(d.levenshtein[size].levenshtein_tokens, cleaned_location),
                             indices |->
                                 Append(d.levenshtein[size].indices, <<canonical_name_idx, idx>>)])
        lev_sizes == IF size \notin DOMAIN d.levenshtein THEN Append(d.lev_sizes, size)
                     ELSE d.lev_sizes
        trigram_tokens == get_trigram_tokens(st.trigram_map, cleaned_location)
        tsize == Cardinality(trigram_tokens)
        tri == IF tsize \notin DOMAIN d.trigrams
               THEN DictSet(d.trigrams, tsize,
                            [trigram_tokens |-> <<trigram_tokens>>,
                             indices |-> << <<canonical_name_idx, idx>> >>])
               ELSE DictSet(d.trigrams, tsize,
                            [trigram_tokens |->
                                 Append(d.trigrams[tsize].trigram_tokens, trigram_tokens),
                             indices |->
                                 Append(d.trigrams[tsize].indices, <<canonical_name_idx, idx>>)])
    IN  [dict |-> [d EXCEPT !.levenshtein = lev, !.lev_sizes = lev_sizes, !.trigrams = tri],
         trigram_map |-> TrigramMapAfter(st.trigram_map, cleaned_location)]

\* The occurrences of each token of a string: one row of the char matrix, as
\* the csr row {column: count}.
CharRow(tokens) ==
    [col \in SeqToSet(tokens) |-> Cardinality({i \in 1..Len(tokens) : tokens[i] = col})]

RECURSIVE ConcatAll(_)
ConcatAll(seqs) == IF seqs = << >> THEN << >> ELSE seqs[1] \o ConcatAll(Tail(seqs))

\* optimize_levenshtein_strings: the char matrix of a bucket's strings (shape
\* is (rows, largest column + 1)), under the _LEVENSHTEIN_MAP as the call leaves it.
optimize_levenshtein_strings(char_map, strings) ==
    LET after == CharMapAfter(char_map, ConcatAll(strings))
        rows == [r \in 1..Len(strings) |-> CharRow(get_char_tokens(after, strings[r]))]
        cols == UNION {DOMAIN rows[r] : r \in 1..Len(rows)}
    IN  [rows |-> rows, ncols |-> IF cols = {} THEN 0 ELSE MaxOf(cols) + 1]

\* optimize_trigram_tokens: the binary trigram matrix of a bucket.
optimize_trigram_tokens(trigrams) ==
    LET cols == UNION {trigrams[r] : r \in 1..Len(trigrams)}
    IN  [rows |-> trigrams, ncols |-> IF cols = {} THEN 0 ELSE MaxOf(cols) + 1]

\* The Levenshtein half of _optimize_resources_dict, bucket by bucket in
\* insertion order, on the pair (resources_dict, _LEVENSHTEIN_MAP).
RECURSIVE OptimizeLevenshtein(_, _)
OptimizeLevenshtein(st, sizes) ==
    IF sizes = << >> THEN st
    ELSE LET part == st.dict.levenshtein[sizes[1]]
             strings == part.levenshtein_tokens
         IN  OptimizeLevenshtein(
                 [dict |-> [st.dict EXCEPT !.levenshtein =
                               DictSet(@, sizes[1],
                                       [levenshtein_tokens |-> strings,
                                        indices |-> part.indices,
                                        char_matrix |->
                                            optimize_levenshtein_strings(st.char_map, strings)])],
                  char_map |-> CharMapAfter(st.char_map, ConcatAll(strings))],
                 Tail(sizes))

\* _optimize_resources_dict
optimize_resources_dict(dict, char_map) ==
    LET lev == OptimizeLevenshtein([dict |-> dict, char_map |-> char_map], dict.lev_sizes)
    IN  [dict |-> [lev.dict EXCEPT !.trigrams =
                       [n \in DOMAIN dict.trigrams |->
                           [trigram_tokens |->
                                optimize_trigram_tokens(dict.trigrams[n].trigram_tokens),
                            indices |-> dict.trigrams[n].indices]]],
         char_map |-> lev.char_map]

\* The spellings of one line of a resource file, from position k on;
\* canonical_name_idx was taken before the first.
RECURSIVE AddSpellings(_, _, _, _)
AddSpellings(st, location_list, k, canonical_name_idx) ==
    IF k > Len(location_list) THEN st
    ELSE LET location == location_list[k]
             cleaned_location == clean_geo_string(location)
         IN  IF cleaned_location = << >>
             THEN AddSpellings(st, location_list, k + 1, canonical_name_idx)
             ELSE LET idx == Len(st.dict.canonical_names)
                      named == [st EXCEPT
                                   !.dict.canonical_names = Append(@, location),
                                   !.dict.cleaned_location_map =
                                       DictSet(@, cleaned_location, <<canonical_name_idx, idx>>)]
                  IN  AddSpellings(add_cleaned_location(named, cleaned_location,
                                                        canonical_name_idx, idx),
                                   location_list, k + 1, canonical_name_idx)

RECURSIVE AddLines(_, _)
AddLines(st, locations) ==
    IF locations = << >> THEN st
    ELSE AddLines(AddSpellings(st, locations[1], 1, Len(st.dict.canonical_names)),
                  Tail(locations))

\* _add_location_resources on the lines of a resource file (each line split
\* on ", "), with the two vocabularies it reads and extends.
add_location_resources(locations, char_map, trigram_map) ==
    LET added == AddLines([dict |-> EmptyLocationDict, trigram_map |-> trigram_map], locations)
        optimized == optimize_resources_dict(added.dict, char_map)
    IN  [dict |-> optimized.dict, char_map |-> optimized.char_map,
         trigram_map |-> added.trigram_map]

(***************************************************************************)
(* The similarity search                                                   *)
(***************************************************************************)

\* What a search returns when nothing reaches the minimum score (None).
None == [found |-> FALSE]

Found(best_candidates, score) == [found |-> TRUE, matches |-> best_candidates, score |-> score]

\* overlap_c.get_overlap: for each csr row, the sum over its columns of the
\* minimum of the row's count and the query vector's count.
get_overlap(query_vector, rows) ==
    [r \in 1..Len(rows) |->
        SumOver([col \in DOMAIN rows[r] |-> Min(query_vector[col], rows[r][col])],
                DOMAIN rows[r])]

\* get_char_overlap: tokens outside the matrix's columns are left out of the
\* query vector.
get_char_overlap(query_tokens, char_matrix) ==
    LET query_vector ==
            [col \in 0..(char_matrix.ncols - 1) |->
                Cardinality({i \in 1..Len(query_tokens) : query_tokens[i] = col})]
    IN  get_overlap(query_vector, char_matrix.rows)

\* The size range a search walks: range(lower, min(upper, max(keys, default=-1) + 1))
SizeUpperBound(bounds, candidates) ==
    LET max_size == IF DOMAIN candidates = {} THEN 0 ELSE MaxOf(DOMAIN candidates) + 1
    IN  IF bounds.unbounded THEN max_size ELSE Min(bounds.upper, max_size)

\* A bucket walk that keeps the first row at or above the threshold.
RECURSIVE LevenshteinBucket(_, _, _, _, _, _)
LevenshteinBucket_FirstMatch(query, part, char_overlap, overlap_lower_bound, idx, best) ==
    IF idx > Len(part.levenshtein_tokens) THEN best
    ELSE IF char_overlap[idx] < overlap_lower_bound
         THEN LevenshteinBucket(query, part, char_overlap, overlap_lower_bound, idx + 1, best)
         ELSE LET score == LevenshteinRatio(query, part.levenshtein_tokens[idx])
                  next == IF best.candidates = << >> /\ ScoreLe(best.score, score)
                          THEN [candidates |-> <<part.indices[idx]>>, score |-> score]
                          ELSE best
              IN  LevenshteinBucket(query, part, char_overlap, overlap_lower_bound, idx + 1,
                                    next)

\* for idx in above_threshold: the rows of one bucket from row idx on.
LevenshteinBucket(query, part, char_overlap, overlap_lower_bound, idx, best) ==
    IF idx > Len(part.levenshtein_tokens) THEN best
    ELSE IF char_overlap[idx] < overlap_lower_bound
         THEN LevenshteinBucket(query, part, char_overlap, overlap_lower_bound, idx + 1, best)
         ELSE LET score == LevenshteinRatio(query, part.levenshtein_tokens[idx])
                  next == IF ScoreLe(best.score, score)
                          THEN IF score = best.score
                               THEN [best EXCEPT !.candidates = Append(@, part.indices[idx])]
                               ELSE [candidates |-> <<part.indices[idx]>>, score |-> score]
                          ELSE best
              IN  LevenshteinBucket(query, part, char_overlap, overlap_lower_bound, idx + 1,
                                    next)

\* for size in range(size_lower_bound, size_upper_bound), from size on.
RECURSIVE LevenshteinSizes(_, _, _, _, _, _, _)
LevenshteinSizes(query, query_tokens, candidates, bounds, size, size_upper_bound, best) ==
    IF size >= size_upper_bound THEN best
    ELSE IF size \notin DOMAIN candidates
         THEN LevenshteinSizes(query, query_tokens, candidates, bounds, size + 1,
                               size_upper_bound, best)
         ELSE LevenshteinSizes(query, query_tokens, candidates, bounds, size + 1,
                               size_upper_bound,
                               LevenshteinBucket(query, candidates[size],
                                                 get_char_overlap(query_tokens,
                                                                  candidates[size].char_matrix),
                                                 OverlapLowerBound(bounds, size), 1, best))

\* The body of find_closest_string_levenshtein once find_levenshtein_bounds
\* has returned bounds.
LevenshteinSearch(query, candidates, min_score, char_map, bounds) ==
    LET query_tokens == get_char_tokens(char_map, query)
        best == LevenshteinSizes(query, query_tokens, candidates, bounds, bounds.lower,
                                 SizeUpperBound(bounds, candidates),
                                 [candidates |-> << >>, score |-> min_score])
    IN  IF best.candidates # << >> THEN Found(best.candidates, best.score) ELSE None

\* find_closest_string_levenshtein(query, candidates, min_score), reading the
\* _LEVENSHTEIN_MAP char_map (the call leaves CharMapAfter(char_map, query)).
find_closest_string_levenshtein(query, candidates, min_score, char_map) ==
    LevenshteinSearch(query, candidates, min_score, char_map,
                      ComputeLevenshteinBounds(Len(query), min_score))

\* trigram_similarity: the score of each row of a bucket of candidates_n_tokens
\* trigrams.
trigram_similarity(query_trigram_tokens, candidates_n_tokens, trigram_matrix) ==
    LET in_vector == {token \in query_trigram_tokens : token < trigram_matrix.ncols}
    IN  [r \in 1..Len(trigram_matrix.rows) |->
            LET n_overlap == Cardinality(trigram_matrix.rows[r] \cap in_vector)
            IN  Frac(n_overlap,
                     Cardinality(query_trigram_tokens) + candidates_n_tokens - n_overlap)]

\* np.max(scores)
RECURSIVE MaxScore(_, _)
MaxScore(scores, k) ==
    IF k = Len(scores) THEN scores[k]
    ELSE LET rest == MaxScore(scores, k + 1)
         IN  IF ScoreLt(scores[k], rest) THEN rest ELSE scores[k]

\* [indices[idx] for idx in np.where(scores == best_score)[0]]
RECURSIVE IndicesWhere(_, _, _, _)
IndicesWhere(scores, indices, best_score, k) ==
    IF k > Len(scores) THEN << >>
    ELSE (IF scores[k] = best_score THEN <<indices[k]>> ELSE << >>)
         \o IndicesWhere(scores, indices, best_score, k + 1)

RECURSIVE TrigramSizes(_, _, _, _, _)
TrigramSizes(query_trigram_tokens, candidates, size, size_upper_bound, best) ==
    IF size >= size_upper_bound THEN best
    ELSE IF size \notin DOMAIN candidates
         THEN TrigramSizes(query_trigram_tokens, candidates, size + 1, size_upper_bound, best)
         ELSE LET scores == trigram_similarity(query_trigram_tokens, size,
                                               candidates[size].trigram_tokens)
                  best_score == MaxScore(scores, 1)
                  best_candidates == IndicesWhere(scores, candidates[size].indices,
                                                  best_score, 1)
                  next == IF ScoreLe(best.score, best_score)
                          THEN IF best_score = best.score
                               THEN [best EXCEPT !.candidates = @ \o best_candidates]
                               ELSE [candidates |-> best_candidates, score |-> best_score]
                          ELSE best
              IN  TrigramSizes(query_trigram_tokens, candidates, size + 1, size_upper_bound,
                               next)

\* A trigram search that accepts any score.
TrigramSearch_AnyScore(query_trigram_tokens, candidates, min_score, bounds) ==
    LET best == TrigramSizes(query_trigram_tokens, candidates, bounds.lower,
                             SizeUpperBound(bounds, candidates),
                             [candidates |-> << >>, score |-> Zero])
    IN  IF best.candidates # << >> THEN Found(best.candidates, best.score) ELSE None

\* The body of find_closest_string_trigrams once find_trigram_bounds has
\* returned bounds.
TrigramSearch(query_trigram_tokens, candidates, min_score, bounds) ==
    LET best == TrigramSizes(query_trigram_tokens, candidates, bounds.lower,
                             SizeUpperBound(bounds, candidates),
                             [candidates |-> << >>, score |-> min_score])
    IN  IF best.candidates # << >> THEN Found(best.candidates, best.score) ELSE None

\* find_closest_string_trigrams(query, candidates, min_score), reading the
\* _TRIGRAM_MAP trigram_map (the call leaves TrigramMapAfter(trigram_map, query)).
find_closest_string_trigrams(query, candidates, min_score, trigram_map) ==
    LET query_trigram_tokens == get_trigram_tokens(trigram_map, query)
    IN  TrigramSearch(query_trigram_tokens, candidates, min_score,
                      ComputeTrigramBounds(Cardinality(query_trigram_tokens), min_score))

\* find_closest_string: Levenshtein first, trigrams only when that found nothing.
find_closest_string(query, candidates, min_score_levenshtein, min_score_trigram, vocab) ==
    LET result == find_closest_string_levenshtein(query, candidates.levenshtein,
                                                  min_score_levenshtein, vocab.char_map)
    IN  IF result = None
        THEN find_closest_string_trigrams(query, candidates.trigrams, min_score_trigram,
                                          vocab.trigram_map)
        ELSE result

\* The vocabularies after find_closest_string: the query's characters are
\* always added, its trigrams only when the trigram stage ran.
VocabAfterSearch(query, candidates, min_score_levenshtein, vocab) ==
    [char_map |-> CharMapAfter(vocab.char_map, query),
     trigram_map |->
         IF find_closest_string_levenshtein(query, candidates.levenshtein,
                                            min_score_levenshtein, vocab.char_map) = None
         THEN TrigramMapAfter(vocab.trigram_map, query)
         ELSE vocab.trigram_map]

(***************************************************************************)
(* The country resources (resources.py)                                    *)
(***************************************************************************)

\* resources/norm_country_country_codes_map.json, in file order: each
\* normalized country with its country codes.
NORM_COUNTRY_COUNTRY_CODES_MAP ==
    << [country |-> <<"B", "a", " ", "B">>, codes |-> << <<"B", "B">> >>],
       [country |-> <<"A", "b", " ", "B", "a">>, codes |-> << <<"A", "B">>, <<"B", "A">> >>] >>

\* resources/country_norm_country_map.json: country code -> normalized country.
COUNTRY_NORM_COUNTRY_MAP ==
    (<<"B", "B">> :> <<"B", "a", " ", "B">>) @@ (<<"A", "B">> :> <<"A", "b", " ", "B", "a">>)
    @@ (<<"B", "A">> :> <<"A", "b", " ", "B", "a">>)

\* resources/country_map.txt: a canonical country and its other spellings.
COUNTRY_MAP_TXT ==
    << << <<"A", "b", " ", "B", "a">>, <<"A", "b", "b", "a">> >>,
       << <<"B", "a", " ", "B">>, <<"R", "u", "s", "s", "i", "a">> >> >>

\* _COUNTRY_RESOURCES['replacements'], which normalize_country reads: a
\* cleaned spelling -> the cleaned name of the country it stands for.
COUNTRY_REPLACEMENTS == (<<"b", "a", "b">> :> <<"b", "a", " ", "b">>)

\* resources['normalized_country_to_country_codes_map'][country]
CountryCodesOf(country) ==
    LET i == CHOOSE k \in 1..Len(NORM_COUNTRY_COUNTRY_CODES_MAP) :
                 NORM_COUNTRY_COUNTRY_CODES_MAP[k].country = country
    IN  SeqToSet(NORM_COUNTRY_COUNTRY_CODES_MAP[i].codes)

NormalizedCountries ==
    {NORM_COUNTRY_COUNTRY_CODES_MAP[k].country : k \in 1..Len(NORM_COUNTRY_COUNTRY_CODES_MAP)}

\* resources['all_country_codes']
ALL_COUNTRY_CODES == UNION {CountryCodesOf(country) : country \in NormalizedCountries}

\* for country_code in country_codes: the codes of one country from position k on
RECURSIVE AddCountryCodes(_, _, _, _)
AddCountryCodes(st, country_codes, k, canonical_name_idx) ==
    IF k > Len(country_codes) THEN st
    ELSE LET idx == Len(st.dict.canonical_names)
             named == [st EXCEPT
                          !.dict.canonical_names = Append(@, country_codes[k]),
                          !.dict.cleaned_location_map =
                              DictSet(@, Lower(country_codes[k]), <<canonical_name_idx, idx>>)]
         IN  AddCountryCodes(add_cleaned_location(named, Lower(country_codes[k]),
                                                  canonical_name_idx, idx),
                             country_codes, k + 1, canonical_name_idx)

\* for canonical_country, country_codes in ...items(): the name, then its codes
RECURSIVE AddCountries(_, _)
AddCountries(st, countries) ==
    IF countries = << >> THEN st
    ELSE LET canonical_name_idx == Len(st.dict.canonical_names)
             cleaned_country == clean_country(countries[1].country)
             named == [st EXCEPT
                          !.dict.canonical_names = Append(@, countries[1].country),
                          !.dict.cleaned_location_map =
                              DictSet(@, cleaned_country,
                                      <<canonical_name_idx, canonical_name_idx>>)]
         IN  AddCountries(AddCountryCodes(add_cleaned_location(named, cleaned_country,
                                                               canonical_name_idx,
                                                               canonical_name_idx),
                                          countries[1].codes, 1, canonical_name_idx),
                          Tail(countries))

\* canonical_names.index(location_list[0])
IndexOf(names, name) == (CHOOSE i \in 1..Len(names) :
                            names[i] = name /\ \A j \in 1..(i - 1) : names[j] # name) - 1

\* for location_list in read_resource_file('resources/country_map.txt')
RECURSIVE AddCountryMap(_, _)
AddCountryMap(st, lines) ==
    IF lines = << >> THEN st
    ELSE AddCountryMap(AddSpellings(st, lines[1], 2,
                                    IndexOf(st.dict.canonical_names, lines[1][1])),
                       Tail(lines))

\* add_country_resources: resources['countries'], with the vocabularies it
\* extends (the module runs it on import, on empty vocabularies).
add_country_resources ==
    LET added == AddCountryMap(AddCountries([dict |-> EmptyLocationDict, trigram_map |-> << >>],
                                            NORM_COUNTRY_COUNTRY_CODES_MAP),
                               COUNTRY_MAP_TXT)
        optimized == optimize_resources_dict(added.dict, << >>)
    IN  [dict |-> optimized.dict, char_map |-> optimized.char_map,
         trigram_map |-> added.trigram_map]

COUNTRY_RESOURCES == add_country_resources.dict

\* The key of _COUNTRY_RESOURCES['countries'] among the loaded indexes.
CountriesKey == <<"countries", << >> >>

\* str.capitalize()
Capitalize(token) ==
    [i \in 1..Len(token) |-> IF i = 1 THEN UpperChar(token[i]) ELSE LowerChar(token[i])]

capitalize_geo_string(string) ==
    LET tokens == Split(string)
    IN  Join([i \in 1..Len(tokens) |->
                 IF tokens[i] \in {<<"a", "n", "d">>, <<"o", "f">>} THEN tokens[i]
                 ELSE Capitalize(tokens[i])],
             <<" ">>)

\* The position after the longest run of digits (letters) of s that starts at
\* position i; i itself when there is none.
RECURSIVE SpanDigits(_, _)
SpanDigits(s, i) == IF i <= Len(s) /\ IsDigitChar(s[i]) THEN SpanDigits(s, i + 1) ELSE i

RECURSIVE SpanLetters(_, _)
SpanLetters(s, i) == IF i <= Len(s) /\ IsAlphaChar(s[i]) THEN SpanLetters(s, i + 1) ELSE i

\* s holds the literal at position i, whatever the case (re.IGNORECASE).
HasLiteral(s, i, literal) ==
    /\ i + Len(literal) - 1 <= Len(s)
    /\ \A k \in 1..Len(literal) : LowerChar(s[i + k - 1]) = literal[k]

\* re.compile(r'\d+ russia', re.IGNORECASE).match(string)
MatchesRussia(string) ==
    LET d == SpanDigits(string, 1)
    IN  d > 1 /\ HasLiteral(string, d, <<" ", "r", "u", "s", "s", "i", "a">>)

\* re.compile(r'\d+[a-z]+\d+ canada [a-z]+\d+[a-z]+', re.IGNORECASE).match(string)
MatchesCanada(string) ==
    LET d1 == SpanDigits(string, 1)
        l1 == SpanLetters(string, d1)
        d2 == SpanDigits(string, l1)
        lit == <<" ", "c", "a", "n", "a", "d", "a", " ">>
        l2 == SpanLetters(string, d2 + Len(lit))
        d3 == SpanDigits(string, l2)
    IN  /\ d1 > 1 /\ l1 > d1 /\ d2 > l1
        /\ HasLiteral(string, d2, lit)
        /\ l2 > d2 + Len(lit) /\ d3 > l2
        /\ SpanLetters(string, d3) > d3

\* pattern_match(country, _COUNTRY_RESOURCES['replacement_patterns']): the
\* replacement of the first pattern that matches, None when none does.
pattern_match(string) ==
    IF MatchesCanada(string)
    THEN [found |-> TRUE, replacement |-> clean_country(<<"c", "a", "n", "a", "d", "a">>)]
    ELSE IF MatchesRussia(string)
    THEN [found |-> TRUE, replacement |-> clean_country(<<"r", "u", "s", "s", "i", "a">>)]
    ELSE None

(***************************************************************************)
(* State                                                                   *)
(***************************************************************************)

VARIABLES
    LEVENSHTEIN_SIZE_BOUNDS,     \* {<<min_score, query_size>>: size range}
    LEVENSHTEIN_OVERLAP_BOUNDS,  \* {<<min_score, query_size>>: overlap floors}
    TRIGRAM_SIZE_BOUNDS,         \* {<<min_score, query_size>>: size range}
    LEVENSHTEIN_MAP,             \* _LEVENSHTEIN_MAP, the character vocabulary
    TRIGRAM_MAP,                 \* _TRIGRAM_MAP, the trigram vocabulary
    RESOURCES,                   \* the region and city indexes loaded so far
    bounds_frame,                \* the bounds lookups of one search and their returns
    search_frame,                \* one call of find_closest_string
    normalize_frame,             \* the normalize_* calls on one input
    find_frame                   \* one call of _find_in_string

cache_vars == <<LEVENSHTEIN_SIZE_BOUNDS, LEVENSHTEIN_OVERLAP_BOUNDS, TRIGRAM_SIZE_BOUNDS>>

vocab_vars == <<LEVENSHTEIN_MAP, TRIGRAM_MAP>>

vars ==
    <<cache_vars, vocab_vars, RESOURCES, bounds_frame, search_frame, normalize_frame,
      find_frame>>

\* The frame of an operation that a specification does not exercise.
NoFrame == [pc |-> "idle"]

(***************************************************************************)
(* The bounds caches                                                       *)
(***************************************************************************)

\* The largest query size _precompute_bounds_find_in_string is modelled for
\* (the code precomputes range(1, 50)).
MaxPrecompute == 11

\* The longest query and candidate strings of the bounds specification.
MaxBoundQuery == 3

MaxBoundCandidate == 4

BoundChars == {"a", "b"}

\* The default match_threshold and match_threshold_small of find_*_in_string.
MatchThreshold == <<21, 25>>

MatchThresholdSmall == <<9, 10>>

\* The minimum scores of the bounds specification.
BoundMinScores == {Zero, <<1, 2>>, <<4, 5>>, MatchThresholdSmall, One}

SizeBoundsOf(b) == [lower |-> b.lower, upper |-> b.upper, unbounded |-> b.unbounded]

OverlapBoundsOf(b) == [defaultdict |-> b.defaultdict, overlap |-> b.overlap]

\* The caches after find_levenshtein_bounds(query_size, min_score): an entry
\* is computed only when the key is new.
LevenshteinSizeBoundsAfter(size_bounds, query_size, min_score) ==
    IF <<min_score, query_size>> \in DOMAIN size_bounds THEN size_bounds
    ELSE DictSet(size_bounds, <<min_score, query_size>>,
                 SizeBoundsOf(ComputeLevenshteinBounds(query_size, min_score)))

LevenshteinOverlapBoundsAfter(size_bounds, overlap_bounds, query_size, min_score) ==
    IF <<min_score, query_size>> \in DOMAIN size_bounds THEN overlap_bounds
    ELSE DictSet(overlap_bounds, <<min_score, query_size>>,
                 OverlapBoundsOf(ComputeLevenshteinBounds(query_size, min_score)))

TrigramSizeBoundsAfter(size_bounds, query_size, min_score) ==
    IF <<min_score, query_size>> \in DOMAIN size_bounds THEN size_bounds
    ELSE DictSet(size_bounds, <<min_score, query_size>>,
                 ComputeTrigramBounds(query_size, min_score))

\* _precompute_bounds_find_in_string: both caches filled for the two default
\* thresholds, query size by query size.
RECURSIVE PrecomputeBounds(_, _)
PrecomputeBounds(caches, query_size) ==
    IF query_size > MaxPrecompute THEN caches
    ELSE LET s1 == LevenshteinSizeBoundsAfter(caches.size, query_size, MatchThreshold)
             o1 == LevenshteinOverlapBoundsAfter(caches.size, caches.overlap, query_size,
                                                 MatchThreshold)
             s2 == LevenshteinSizeBoundsAfter(s1, query_size, MatchThresholdSmall)
             o2 == LevenshteinOverlapBoundsAfter(s1, o1, query_size, MatchThresholdSmall)
             t1 == TrigramSizeBoundsAfter(caches.trigram, query_size, MatchThreshold)
             t2 == TrigramSizeBoundsAfter(t1, query_size, MatchThresholdSmall)
         IN  PrecomputeBounds([size |-> s2, overlap |-> o2, trigram |-> t2], query_size + 1)

PrecomputedBounds ==
    PrecomputeBounds([size |-> EmptyDict, overlap |-> EmptyDict, trigram |-> EmptyDict], 1)

\* The vocabularies and the country index once the country resources are
\* loaded, on import.
InitVocab ==
    \E loaded \in {add_country_resources} :
        /\ LEVENSHTEIN_MAP = loaded.char_map
        /\ TRIGRAM_MAP = loaded.trigram_map
        /\ RESOURCES = DictSet(EmptyDict, CountriesKey, loaded.dict)

InitCaches ==
    /\ LEVENSHTEIN_SIZE_BOUNDS = PrecomputedBounds.size
    /\ LEVENSHTEIN_OVERLAP_BOUNDS = PrecomputedBounds.overlap
    /\ TRIGRAM_SIZE_BOUNDS = PrecomputedBounds.trigram

\* A search of query against a candidate of the index, at min_score: the two
\* bounds lookups it makes, not yet made.
InitBounds ==
    /\ InitCaches
    /\ InitVocab
    /\ search_frame = NoFrame /\ normalize_frame = NoFrame /\ find_frame = NoFrame
    /\ \E query \in StringsUpTo(BoundChars, 1, MaxBoundQuery),
          candidate \in StringsUpTo(BoundChars, 0, MaxBoundCandidate),
          min_score \in BoundMinScores :
            bounds_frame = [query |-> query, candidate |-> candidate, min_score |-> min_score,
                            levenshtein |-> None, trigram |-> None]

\* find_levenshtein_bounds(len(query), min_score), as find_closest_string_levenshtein calls it
FindLevenshteinBounds ==
    /\ bounds_frame.levenshtein = None
    /\ LET query_size == Len(bounds_frame.query)
           min_score == bounds_frame.min_score
           key == <<min_score, query_size>>
       IN  /\ LEVENSHTEIN_SIZE_BOUNDS' =
                  LevenshteinSizeBoundsAfter(LEVENSHTEIN_SIZE_BOUNDS, query_size, min_score)
           /\ LEVENSHTEIN_OVERLAP_BOUNDS' =
                  LevenshteinOverlapBoundsAfter(LEVENSHTEIN_SIZE_BOUNDS,
                                                LEVENSHTEIN_OVERLAP_BOUNDS, query_size,
                                                min_score)
           /\ bounds_frame' =
                  [bounds_frame EXCEPT !.levenshtein =
                      [found |-> TRUE, size |-> LEVENSHTEIN_SIZE_BOUNDS'[key],
                       overlap |-> LEVENSHTEIN_OVERLAP_BOUNDS'[key]]]
    /\ UNCHANGED <<TRIGRAM_SIZE_BOUNDS, vocab_vars, RESOURCES, search_frame, normalize_frame,
                   find_frame>>

\* find_trigram_bounds(len(query_trigram_tokens), min_score), as
\* find_closest_string_trigrams calls it
FindTrigramBounds ==
    /\ bounds_frame.trigram = None
    /\ LET query_size == Cardinality(SeqToSet(TrigramsOf(bounds_frame.query)))
           min_score == bounds_frame.min_score
       IN  /\ TRIGRAM_SIZE_BOUNDS' =
                  TrigramSizeBoundsAfter(TRIGRAM_SIZE_BOUNDS, query_size, min_score)
           /\ bounds_frame' =
                  [bounds_frame EXCEPT !.trigram =
                      [found |-> TRUE, query_size |-> query_size,
                       size |-> TRIGRAM_SIZE_BOUNDS'[<<min_score, query_size>>]]]
    /\ UNCHANGED <<LEVENSHTEIN_SIZE_BOUNDS, LEVENSHTEIN_OVERLAP_BOUNDS, vocab_vars, RESOURCES,
                   search_frame, normalize_frame, find_frame>>

NextBounds == FindLevenshteinBounds \/ FindTrigramBounds

SpecBounds == InitBounds /\ [][NextBounds]_vars

\* A size lies outside the range [lower, upper) a bounds call returned.
OutsideRange(size_bounds, size) ==
    size < size_bounds.lower \/ (~size_bounds.unbounded /\ size >= size_bounds.upper)

\* C4: a candidate whose length (trigram-set size) lies outside the range that
\* find_levenshtein_bounds (find_trigram_bounds) returned for the query's
\* size and a min_score > 0 scores strictly below min_score against the query.
C4_BoundsSound ==
    LET f == bounds_frame
    IN  /\ (f.levenshtein # None /\ f.min_score # Zero
            /\ OutsideRange(f.levenshtein.size, Len(f.candidate)))
           => ScoreLt(LevenshteinRatio(f.query, f.candidate), f.min_score)
        /\ (f.trigram # None /\ f.min_score # Zero
            /\ OutsideRange(f.trigram.size,
                            Cardinality(SeqToSet(TrigramsOf(f.candidate)))))
           => ScoreLt(trigram_similarity_naive(SeqToSet(TrigramsOf(f.query)),
                                               SeqToSet(TrigramsOf(f.candidate))),
                      f.min_score)

\* Both lookups made, and the candidate is longer than the Levenshtein range
\* admits and has fewer trigrams than the trigram range admits, or the reverse.
C4_Witness ==
    LET f == bounds_frame
    IN  /\ f.levenshtein # None /\ f.trigram # None /\ f.min_score # Zero
        /\ ~f.levenshtein.size.unbounded
        /\ Len(f.candidate) >= f.levenshtein.size.upper
        /\ OutsideRange(f.trigram.size, Cardinality(SeqToSet(TrigramsOf(f.candidate))))

\* char_overlap of find_closest_string_levenshtein for a query and one
\* candidate: the row of the candidate in the char matrix of its bucket
\* against the query vector.
CharOverlapOf(char_map, query, candidate) ==
    LET char_matrix == optimize_levenshtein_strings(char_map, <<candidate>>)
        query_tokens == get_char_tokens(CharMapAfter(char_map, candidate), query)
    IN  get_char_overlap(query_tokens, char_matrix)[1]

\* C22: for a min_score > 0 and a candidate whose length lies inside the
\* size range find_levenshtein_bounds returned, a candidate that shares fewer
\* characters with the query than the overlap floor stored for its length has
\* a Levenshtein ratio strictly below min_score.
C22_OverlapFloorSound ==
    LET f == bounds_frame
    IN  (/\ f.levenshtein # None /\ f.min_score # Zero
         /\ ~OutsideRange(f.levenshtein.size, Len(f.candidate))
         /\ CharOverlapOf(LEVENSHTEIN_MAP, f.query, f.candidate)
                < OverlapLowerBound(f.levenshtein.overlap, Len(f.candidate)))
        => ScoreLt(LevenshteinRatio(f.query, f.candidate), f.min_score)

\* The lookup made for a candidate inside the size range, longer than the
\* query, that shares characters with the query but fewer than the floor of
\* its length.
C22_Witness ==
    LET f == bounds_frame
    IN  /\ f.levenshtein # None /\ f.min_score # Zero
        /\ ~OutsideRange(f.levenshtein.size, Len(f.candidate))
        /\ Len(f.candidate) > Len(f.query)
        /\ CharOverlapOf(LEVENSHTEIN_MAP, f.query, f.candidate) > 0
        /\ CharOverlapOf(LEVENSHTEIN_MAP, f.query, f.candidate)
               < OverlapLowerBound(f.levenshtein.overlap, Len(f.candidate))

(***************************************************************************)
(* find_closest_string, stage by stage                                     *)
(***************************************************************************)

\* The longest query of the search specification.
MaxSearchQuery == 3

SearchChars == {"a", "b"}

\* The lines of the resource file the searched index is built from: a
\* canonical name followed by its alternative spellings.
SearchLines ==
    << << <<"A", "b">>, <<"B", "a">> >>, << <<"A", "b", "b">> >>, << <<"B", "a", "b">> >>,
       << <<"B">> >> >>

SearchMinScoresLevenshtein == {Zero, <<1, 2>>, <<4, 5>>, One}

SearchMinScoresTrigram == {Zero, <<1, 2>>, One}

\* The lines of a file whose positions are in keep, in file order.
RECURSIVE SelectLines(_, _, _)
SelectLines(lines, keep, k) ==
    IF k > Len(lines) THEN << >>
    ELSE (IF k \in keep THEN <<lines[k]>> ELSE << >>) \o SelectLines(lines, keep, k + 1)

InitSearch ==
    /\ InitCaches
    /\ bounds_frame = NoFrame /\ normalize_frame = NoFrame /\ find_frame = NoFrame
    /\ \E keep \in SUBSET (1..Len(SearchLines)),
          query \in StringsUpTo(SearchChars, 1, MaxSearchQuery),
          min_score_levenshtein \in SearchMinScoresLevenshtein,
          min_score_trigram \in SearchMinScoresTrigram,
          loaded \in {add_country_resources} :
            \E built \in {add_location_resources(SelectLines(SearchLines, keep, 1),
                                                 loaded.char_map, loaded.trigram_map)} :
                /\ LEVENSHTEIN_MAP = built.char_map
                /\ TRIGRAM_MAP = built.trigram_map
                /\ RESOURCES = DictSet(EmptyDict, CountriesKey, loaded.dict)
                /\ search_frame =
                       [pc |-> "levenshtein", query |-> query, candidates |-> built.dict,
                        min_score_levenshtein |-> min_score_levenshtein,
                        min_score_trigram |-> min_score_trigram,
                        calls |-> << >>, levenshtein |-> None, trigrams |-> None,
                        result |-> None]

\* result = find_closest_string_levenshtein(query, candidates['levenshtein'],
\*                                          min_score_levenshtein)
LevenshteinStage ==
    /\ search_frame.pc = "levenshtein"
    /\ LET f == search_frame
           result == find_closest_string_levenshtein(f.query, f.candidates.levenshtein,
                                                     f.min_score_levenshtein, LEVENSHTEIN_MAP)
       IN  /\ search_frame' = [f EXCEPT !.pc = "levenshtein_done",
                                        !.calls = Append(@, "levenshtein"),
                                        !.levenshtein = result]
           /\ LEVENSHTEIN_MAP' = CharMapAfter(LEVENSHTEIN_MAP, f.query)
           /\ LEVENSHTEIN_SIZE_BOUNDS' =
                  LevenshteinSizeBoundsAfter(LEVENSHTEIN_SIZE_BOUNDS, Len(f.query),
                                             f.min_score_levenshtein)
           /\ LEVENSHTEIN_OVERLAP_BOUNDS' =
                  LevenshteinOverlapBoundsAfter(LEVENSHTEIN_SIZE_BOUNDS,
                                                LEVENSHTEIN_OVERLAP_BOUNDS, Len(f.query),
                                                f.min_score_levenshtein)
    /\ UNCHANGED <<TRIGRAM_SIZE_BOUNDS, TRIGRAM_MAP, RESOURCES, bounds_frame, normalize_frame,
                   find_frame>>

\* A find_closest_string that runs the trigram stage whatever the Levenshtein
\* stage returned.
TrigramStage_Always ==
    /\ search_frame.pc = "levenshtein_done"
    /\ LET f == search_frame
           result == find_closest_string_trigrams(f.query, f.candidates.trigrams,
                                                  f.min_score_trigram, TRIGRAM_MAP)
       IN  /\ search_frame' = [f EXCEPT !.pc = "done",
                                        !.calls = Append(@, "trigrams"),
                                        !.trigrams = result,
                                        !.result = result]
           /\ TRIGRAM_MAP' = TrigramMapAfter(TRIGRAM_MAP, f.query)
           /\ TRIGRAM_SIZE_BOUNDS' =
                  TrigramSizeBoundsAfter(TRIGRAM_SIZE_BOUNDS,
                                         Cardinality(get_trigram_tokens(TRIGRAM_MAP, f.query)),
                                         f.min_score_trigram)
    /\ UNCHANGED <<LEVENSHTEIN_SIZE_BOUNDS, LEVENSHTEIN_OVERLAP_BOUNDS, LEVENSHTEIN_MAP,
                   RESOURCES, bounds_frame, normalize_frame, find_frame>>

\* if result is None: return find_closest_string_trigrams(query,
\*                        candidates['trigrams'], min_score_trigram)
TrigramStage ==
    /\ search_frame.pc = "levenshtein_done"
    /\ search_frame.levenshtein = None
    /\ LET f == search_frame
           result == find_closest_string_trigrams(f.query, f.candidates.trigrams,
                                                  f.min_score_trigram, TRIGRAM_MAP)
       IN  /\ search_frame' = [f EXCEPT !.pc = "done",
                                        !.calls = Append(@, "trigrams"),
                                        !.trigrams = result,
                                        !.result = result]
           /\ TRIGRAM_MAP' = TrigramMapAfter(TRIGRAM_MAP, f.query)
           /\ TRIGRAM_SIZE_BOUNDS' =
                  TrigramSizeBoundsAfter(TRIGRAM_SIZE_BOUNDS,
                                         Cardinality(get_trigram_tokens(TRIGRAM_MAP, f.query)),
                                         f.min_score_trigram)
    /\ UNCHANGED <<LEVENSHTEIN_SIZE_BOUNDS, LEVENSHTEIN_OVERLAP_BOUNDS, LEVENSHTEIN_MAP,
                   RESOURCES, bounds_frame, normalize_frame, find_frame>>

\* else: return result
ReturnLevenshtein ==
    /\ search_frame.pc = "levenshtein_done"
    /\ search_frame.levenshtein # None
    /\ search_frame' = [search_frame EXCEPT !.pc = "done", !.result = search_frame.levenshtein]
    /\ UNCHANGED <<cache_vars, vocab_vars, RESOURCES, bounds_frame, normalize_frame, find_frame>>

NextSearch == LevenshteinStage \/ TrigramStage \/ ReturnLevenshtein

SpecSearch == InitSearch /\ [][NextSearch]_vars

\* Every entry of the Levenshtein buckets of an index, as
\* <<cleaned spelling, (canonical_idx, idx)>>.
LevenshteinEntries(candidates) ==
    UNION {{<<candidates[size].levenshtein_tokens[r], candidates[size].indices[r]>> :
                r \in 1..Len(candidates[size].indices)} : size \in DOMAIN candidates}

\* The brute-force best score: the largest ratio of the query to any entry.
BruteForceBest(query, entries) ==
    LET scores == {LevenshteinRatio(query, e[1]) : e \in entries}
    IN  CHOOSE s \in scores : \A t \in scores : ScoreLe(t, s)

\* C3: the pruned Levenshtein search returns None exactly when no index entry
\* has a ratio >= min_score to the query; otherwise it returns (L, s) with s
\* the largest ratio over all entries and L exactly the index pairs of the
\* entries whose ratio is s, each once.
C3_PrunedEqualsBruteForce ==
    LET f == search_frame
        entries == LevenshteinEntries(f.candidates.levenshtein)
        reaching == {e \in entries :
                        ScoreLe(f.min_score_levenshtein, LevenshteinRatio(f.query, e[1]))}
    IN  (f.pc \in {"levenshtein_done", "done"}) =>
            IF reaching = {} THEN f.levenshtein = None
            ELSE /\ f.levenshtein # None
                 /\ f.levenshtein.score = BruteForceBest(f.query, entries)
                 /\ SeqToSet(f.levenshtein.matches) =
                        {e[2] : e \in {x \in entries :
                                          LevenshteinRatio(f.query, x[1])
                                              = BruteForceBest(f.query, entries)}}
                 /\ Len(f.levenshtein.matches) = Cardinality(SeqToSet(f.levenshtein.matches))

\* The search returned two tied best entries from an index that also holds an
\* entry whose size lies outside the range searched.
C3_Witness ==
    LET f == search_frame
        entries == LevenshteinEntries(f.candidates.levenshtein)
    IN  /\ f.pc = "levenshtein_done"
        /\ f.levenshtein # None
        /\ Len(f.levenshtein.matches) = 2
        /\ f.min_score_levenshtein # Zero
        /\ \E e \in entries :
               OutsideRange(ComputeLevenshteinBounds(Len(f.query), f.min_score_levenshtein),
                            Len(e[1]))

\* C6: the trigram stage is called if and only if the Levenshtein stage
\* returned None, and a Levenshtein result that is not None is what
\* find_closest_string returns, unchanged.
C6_TwoStageOrdering ==
    LET f == search_frame
    IN  /\ (f.pc = "done") =>
               /\ f.calls[1] = "levenshtein"
               /\ ("trigrams" \in SeqToSet(f.calls)) <=> (f.levenshtein = None)
               /\ (f.levenshtein # None) => f.result = f.levenshtein
               /\ (f.levenshtein = None) => f.result = f.trigrams
        /\ ("trigrams" \in SeqToSet(f.calls)) => (f.levenshtein = None)

\* The search returned the Levenshtein result although the trigram stage, had
\* it run, would have found a candidate at this min_score_trigram.
C6_Witness ==
    LET f == search_frame
    IN  /\ f.pc = "done"
        /\ f.levenshtein # None
        /\ f.calls = <<"levenshtein">>
        /\ find_closest_string_trigrams(f.query, f.candidates.trigrams, f.min_score_trigram,
                                        TRIGRAM_MAP) # None

(***************************************************************************)
(* normalize_country, normalize_region, normalize_city (normalize.py)      *)
(***************************************************************************)

\* The module state a call reads and writes: the two vocabularies, the three
\* bounds caches and the region and city indexes loaded so far.
Globals ==
    [char_map |-> LEVENSHTEIN_MAP, trigram_map |-> TRIGRAM_MAP,
     size_bounds |-> LEVENSHTEIN_SIZE_BOUNDS, overlap_bounds |-> LEVENSHTEIN_OVERLAP_BOUNDS,
     trigram_bounds |-> TRIGRAM_SIZE_BOUNDS, resources |-> RESOURCES]

\* find_levenshtein_bounds(query_size, min_score) on the caches of g: the
\* cached entry when there is one, a computed one otherwise.
CachedLevenshteinBounds(g, query_size, min_score) ==
    LET key == <<min_score, query_size>>
    IN  IF key \in DOMAIN g.size_bounds
        THEN [lower |-> g.size_bounds[key].lower, upper |-> g.size_bounds[key].upper,
              unbounded |-> g.size_bounds[key].unbounded,
              defaultdict |-> g.overlap_bounds[key].defaultdict,
              overlap |-> g.overlap_bounds[key].overlap]
        ELSE ComputeLevenshteinBounds(query_size, min_score)

\* find_trigram_bounds(query_size, min_score) on the cache of g.
CachedTrigramBounds(g, query_size, min_score) ==
    IF <<min_score, query_size>> \in DOMAIN g.trigram_bounds
    THEN g.trigram_bounds[<<min_score, query_size>>]
    ELSE ComputeTrigramBounds(query_size, min_score)

\* The trigram stage of find_closest_string with its writes: the query's
\* trigrams are added to the vocabulary and the trigram bounds are cached.
TrigramStageWithGlobals(g, query, candidates, min_score_trigram) ==
    LET query_trigram_tokens == get_trigram_tokens(g.trigram_map, query)
        query_size == Cardinality(query_trigram_tokens)
    IN  CHOOSE r \in
            {[ret |-> TrigramSearch(query_trigram_tokens, candidates.trigrams,
                                    min_score_trigram, bounds),
              g |-> [g EXCEPT !.trigram_map = TrigramMapAfter(@, query),
                              !.trigram_bounds =
                                  DictSet(@, <<min_score_trigram, query_size>>, bounds)],
              levenshtein |-> FALSE] :
                bounds \in {CachedTrigramBounds(g, query_size, min_score_trigram)}} : TRUE

\* find_closest_string with its writes: the query's characters are added to
\* the vocabulary and the Levenshtein bounds are cached; the trigram stage
\* runs only when the Levenshtein stage found nothing. levenshtein tells
\* whether the result is the Levenshtein stage's.
SearchWithGlobals(g, query, candidates, min_score_levenshtein, min_score_trigram) ==
    LET key == <<min_score_levenshtein, Len(query)>>
        AfterLevenshtein(bounds) ==
            [g EXCEPT !.char_map = CharMapAfter(@, query),
                      !.size_bounds = DictSet(@, key, SizeBoundsOf(bounds)),
                      !.overlap_bounds = DictSet(@, key, OverlapBoundsOf(bounds))]
    IN  CHOOSE r \in
            {IF stage.ret # None
             THEN [ret |-> stage.ret, g |-> stage.g, levenshtein |-> TRUE]
             ELSE TrigramStageWithGlobals(stage.g, query, candidates, min_score_trigram) :
                stage \in
                    {[ret |-> LevenshteinSearch(query, candidates.levenshtein,
                                                min_score_levenshtein, g.char_map, bounds),
                      g |-> AfterLevenshtein(bounds)] :
                        bounds \in {CachedLevenshteinBounds(g, Len(query),
                                                            min_score_levenshtein)}}} : TRUE

NormalizedCountryMatch(canonical_name, matched_name, score) ==
    [canonical_name |-> canonical_name, matched_name |-> matched_name, score |-> score]

\* cleaned_location_map[cleaned_country] as normalize_country reads it: the
\* index of the canonical country name.
CountryIdx(countries, cleaned_country) == countries.cleaned_location_map[cleaned_country][1]

\* normalize_country(country, min_score_levenshtein, min_score_trigram): the
\* list returned, the module state it leaves, the step that returned, and
\* whether the Levenshtein stage of find_closest_string gave the matches.
normalize_country(g, country, min_score_levenshtein, min_score_trigram) ==
    LET cleaned_country == clean_country(country)
        countries == g.resources[CountriesKey]
        known_country == pattern_match(country)
    IN  IF cleaned_country = << >>
        THEN [ret |-> << >>, g |-> g, step |-> "empty", levenshtein |-> FALSE]
        ELSE IF cleaned_country \in DOMAIN countries.cleaned_location_map
        THEN LET canonical_country ==
                     countries.canonical_names[CountryIdx(countries, cleaned_country) + 1]
             IN  [ret |-> <<NormalizedCountryMatch(canonical_country, canonical_country, One)>>,
                  g |-> g, step |-> "exact", levenshtein |-> FALSE]
        ELSE IF cleaned_country \in DOMAIN COUNTRY_REPLACEMENTS
        THEN LET replacement == COUNTRY_REPLACEMENTS[cleaned_country]
                 canonical_country == countries.canonical_names[CountryIdx(countries, replacement) + 1]
             IN  [ret |-> <<NormalizedCountryMatch(canonical_country,
                                                   capitalize_geo_string(cleaned_country), One)>>,
                  g |-> g, step |-> "replacement", levenshtein |-> FALSE]
        ELSE IF known_country # None
        THEN LET canonical_country ==
                     countries.canonical_names[CountryIdx(countries, known_country.replacement) + 1]
             IN  [ret |-> <<NormalizedCountryMatch(
                                canonical_country,
                                capitalize_geo_string(known_country.replacement), One)>>,
                  g |-> g, step |-> "pattern", levenshtein |-> FALSE]
        ELSE CHOOSE r \in
                 {[ret |-> IF country_match.ret = None THEN << >>
                           ELSE [k \in 1..Len(country_match.ret.matches) |->
                                    NormalizedCountryMatch(
                                        countries.canonical_names[
                                            country_match.ret.matches[k][1] + 1],
                                        countries.canonical_names[
                                            country_match.ret.matches[k][2] + 1],
                                        country_match.ret.score)],
                   g |-> country_match.g, step |-> "find_closest_string",
                   levenshtein |-> country_match.levenshtein] :
                     country_match \in
                         {SearchWithGlobals(g, cleaned_country, countries,
                                            min_score_levenshtein, min_score_trigram)}} : TRUE

\* resources/regions_per_country/<code>.txt and resources/cities_per_country/
\* <code>.txt: per line a canonical name and its other spellings.
REGIONS_PER_COUNTRY ==
    (<<"A", "B">> :> << << <<"B", "b">> >> >>)
    @@ (<<"B", "A">> :> << << <<"B", "b">>, <<"B">> >> >>)
    @@ (<<"B", "B">> :> << << <<"A", "b">> >>, << <<"B", "a", " ", "B">> >> >>)

CITIES_PER_COUNTRY ==
    (<<"A", "B">> :> << << <<"A", "b">> >>, << <<"B", "a", "b">>, <<"B", "a">> >> >>)
    @@ (<<"B", "A">> :> << << <<"A", "B", ".">> >>, << <<"A", "b", "b">> >> >>)
    @@ (<<"B", "B">> :> << << <<"A", "b", "b">> >>, << <<"B", "a">> >>, << <<"A", "b", ".">> >> >>)

ResourceFile(kind, country_code) ==
    IF kind = "regions" THEN REGIONS_PER_COUNTRY[country_code]
    ELSE CITIES_PER_COUNTRY[country_code]

\* The loop of add_region_resources / add_city_resources over the country
\* codes in iteration order: a code already loaded is skipped.
RECURSIVE AddResources(_, _, _, _)
AddResources(g, kind, country_codes, k) ==
    IF k > Len(country_codes) THEN g
    ELSE IF <<kind, country_codes[k]>> \in DOMAIN g.resources
         THEN AddResources(g, kind, country_codes, k + 1)
         ELSE CHOOSE r \in
                  {AddResources([g EXCEPT !.char_map = built.char_map,
                                          !.trigram_map = built.trigram_map,
                                          !.resources =
                                              DictSet(@, <<kind, country_codes[k]>>, built.dict)],
                                kind, country_codes, k + 1) :
                      built \in {add_location_resources(ResourceFile(kind, country_codes[k]),
                                                        g.char_map, g.trigram_map)}} : TRUE

add_region_resources(g, country_codes) == AddResources(g, "regions", country_codes, 1)

add_city_resources(g, country_codes) == AddResources(g, "cities", country_codes, 1)

\* The elements of a set in some fixed order.
RECURSIVE SetToSeq(_)
SetToSeq(S) ==
    IF S = {} THEN << >>
    ELSE LET x == CHOOSE y \in S : \A z \in S : y = z \/ StrLess(y, z)
         IN  <<x>> \o SetToSeq(S \ {x})

\* The orders a set can be iterated in.
IterationOrders(S) ==
    {order \in [1..Cardinality(S) -> S] :
        \A i, j \in 1..Cardinality(S) : order[i] = order[j] => i = j}

\* A loop over the countries that ends at the first string that is not a
\* country.
RECURSIVE CountryCodesLoop_StopAtUnknown(_, _, _)
CountryCodesLoop_StopAtUnknown(acc, countries, k) ==
    IF k > Len(countries) THEN acc
    ELSE CHOOSE r \in
             {LET country == countries[k]
                  is_code == Len(country) = 2
                             /\ Upper(country) \in DOMAIN COUNTRY_NORM_COUNTRY_MAP
                  is_none == ~is_code /\ normalized.ret = << >>
                  normalized_country ==
                      IF is_code THEN COUNTRY_NORM_COUNTRY_MAP[Upper(country)]
                      ELSE normalized.ret[1].canonical_name
              IN  IF is_none \/ normalized_country \notin NormalizedCountries
                  THEN [acc EXCEPT !.countries_not_found = Append(@, country),
                                   !.g = normalized.g]
                  ELSE CountryCodesLoop_StopAtUnknown(
                           [acc EXCEPT !.ret = @ \cup CountryCodesOf(normalized_country),
                                       !.g = normalized.g],
                           countries, k + 1) :
                 normalized \in
                     {IF Len(countries[k]) = 2
                         /\ Upper(countries[k]) \in DOMAIN COUNTRY_NORM_COUNTRY_MAP
                      THEN [ret |-> << >>, g |-> acc.g]
                      ELSE normalize_country(acc.g, countries[k], <<4, 5>>, <<1, 2>>)}} : TRUE

\* for country in countries, from position k on (normalize_country_to_country_codes)
RECURSIVE CountryCodesLoop(_, _, _)
CountryCodesLoop(acc, countries, k) ==
    IF k > Len(countries) THEN acc
    ELSE CHOOSE r \in
             {LET country == countries[k]
                  is_code == Len(country) = 2
                             /\ Upper(country) \in DOMAIN COUNTRY_NORM_COUNTRY_MAP
                  is_none == ~is_code /\ normalized.ret = << >>
                  normalized_country ==
                      IF is_code THEN COUNTRY_NORM_COUNTRY_MAP[Upper(country)]
                      ELSE normalized.ret[1].canonical_name
              IN  CountryCodesLoop(
                      IF is_none \/ normalized_country \notin NormalizedCountries
                      THEN [acc EXCEPT !.countries_not_found = Append(@, country),
                                       !.g = normalized.g]
                      ELSE [acc EXCEPT !.ret = @ \cup CountryCodesOf(normalized_country),
                                       !.g = normalized.g],
                      countries, k + 1) :
                 normalized \in
                     {IF Len(countries[k]) = 2
                         /\ Upper(countries[k]) \in DOMAIN COUNTRY_NORM_COUNTRY_MAP
                      THEN [ret |-> << >>, g |-> acc.g]
                      ELSE normalize_country(acc.g, countries[k], <<4, 5>>, <<1, 2>>)}} : TRUE

\* normalize_country_to_country_codes(countries) on a set of countries that is
\* not None: the country codes, the strings that were not found, the
\* warnings emitted (each the list it names), the module state it leaves.
normalize_country_to_country_codes(g, countries) ==
    CHOOSE r \in
        {[ret |-> loop.ret, countries_not_found |-> loop.countries_not_found, g |-> loop.g,
          warnings |-> IF loop.countries_not_found # << >>
                       THEN <<loop.countries_not_found>> ELSE << >>] :
            loop \in {CountryCodesLoop([ret |-> {}, countries_not_found |-> << >>, g |-> g],
                                       SetToSeq(countries), 1)}} : TRUE

NormalizedLocationMatch(canonical_name, matched_name, country, score) ==
    [canonical_name |-> canonical_name, matched_name |-> matched_name, country |-> country,
     score |-> score]

\* sorted(xs, key=...): xs in the order Less gives, equal keys in their
\* original order (Python's sort is stable).
SortedBy(xs, Less(_, _)) ==
    LET Before(i, j) == Less(xs[i], xs[j]) \/ (~Less(xs[j], xs[i]) /\ i < j)
        Rank(j) == Cardinality({i \in 1..Len(xs) : i # j /\ Before(i, j)})
    IN  [r \in 1..Len(xs) |-> xs[CHOOSE j \in 1..Len(xs) : Rank(j) = r - 1]]

\* len(RE_ALPHA.sub('', name))
NonAlphaCount(name) == Cardinality({i \in 1..Len(name) : ~IsAlphaChar(name[i])})

\* key=lambda tup: (-tup[0], -tup[1], tup[2])
MultipleNamesLess(a, b) ==
    IF NonAlphaCount(a.canonical_name) # NonAlphaCount(b.canonical_name)
    THEN NonAlphaCount(a.canonical_name) > NonAlphaCount(b.canonical_name)
    ELSE IF Len(a.canonical_name) # Len(b.canonical_name)
    THEN Len(a.canonical_name) > Len(b.canonical_name)
    ELSE StrLess(a.canonical_name, b.canonical_name)

process_multiple_names(candidates) == SortedBy(candidates, MultipleNamesLess)[1]

\* key=lambda x: (-x.score, x.canonical_name, x.country)
LocationLess(a, b) ==
    IF a.score # b.score THEN ScoreLt(b.score, a.score)
    ELSE IF a.canonical_name # b.canonical_name THEN StrLess(a.canonical_name, b.canonical_name)
    ELSE StrLess(a.country, b.country)

\* A dedupe key on the canonical name as written, not cleaned.
DedupeKey_Raw(candidate) == <<candidate.canonical_name, candidate.country, candidate.score>>

\* dedupe_key = (clean(candidate.canonical_name), candidate.country, candidate.score)
DedupeKey(candidate) ==
    <<clean_geo_string(candidate.canonical_name), candidate.country, candidate.score>>

\* deduped_candidates.values(): the candidates of each dedupe key, the keys in
\* the order they first appear.
Deduped(candidates) ==
    LET firsts == {i \in 1..Len(candidates) :
                      \A j \in 1..(i - 1) : DedupeKey(candidates[j]) # DedupeKey(candidates[i])}
        Group(i) == LET same == {j \in 1..Len(candidates) :
                                    DedupeKey(candidates[j]) = DedupeKey(candidates[i])}
                    IN  [n \in 1..Cardinality(same) |->
                            candidates[CHOOSE j \in same :
                                           Cardinality({x \in same : x < j}) = n - 1]]
    IN  [n \in 1..Cardinality(firsts) |->
            Group(CHOOSE i \in firsts : Cardinality({x \in firsts : x < i}) = n - 1)]

\* The first loop over the country codes: the exact lookups.
RECURSIVE ExactLoop(_, _, _, _, _)
ExactLoop(candidates, g, kind, cleaned, country_codes) ==
    IF country_codes = << >> THEN candidates
    ELSE LET in_country == g.resources[<<kind, country_codes[1]>>]
             hit == in_country.cleaned_location_map[cleaned]
         IN  ExactLoop(IF cleaned \in DOMAIN in_country.cleaned_location_map
                       THEN Append(candidates,
                                   NormalizedLocationMatch(
                                       in_country.canonical_names[hit[1] + 1],
                                       in_country.canonical_names[hit[2] + 1],
                                       COUNTRY_NORM_COUNTRY_MAP[country_codes[1]], One))
                       ELSE candidates,
                       g, kind, cleaned, Tail(country_codes))

\* A second loop that stops at the first country code with a match.
RECURSIVE FuzzyLoop(_, _, _, _, _, _)
FuzzyLoop_FirstCountry(acc, kind, cleaned, country_codes, min_score_levenshtein, min_score_trigram) ==
    IF country_codes = << >> \/ acc.candidates # << >> THEN acc
    ELSE LET in_country == acc.g.resources[<<kind, country_codes[1]>>]
             match == SearchWithGlobals(acc.g, cleaned, in_country, min_score_levenshtein,
                                        min_score_trigram)
             found == IF match.ret = None THEN << >>
                      ELSE [k \in 1..Len(match.ret.matches) |->
                               NormalizedLocationMatch(
                                   in_country.canonical_names[match.ret.matches[k][1] + 1],
                                   in_country.canonical_names[match.ret.matches[k][2] + 1],
                                   COUNTRY_NORM_COUNTRY_MAP[country_codes[1]],
                                   match.ret.score)]
         IN  FuzzyLoop([candidates |-> found, g |-> match.g,
                        searched |-> Append(acc.searched, country_codes[1])],
                       kind, cleaned, Tail(country_codes), min_score_levenshtein,
                       min_score_trigram)

\* The second loop over the country codes: find_closest_string in each.
FuzzyLoop(acc, kind, cleaned, country_codes, min_score_levenshtein, min_score_trigram) ==
    IF country_codes = << >> THEN acc
    ELSE LET in_country == acc.g.resources[<<kind, country_codes[1]>>]
             Matches(match) ==
                 IF match.ret = None THEN << >>
                 ELSE [k \in 1..Len(match.ret.matches) |->
                          NormalizedLocationMatch(
                              in_country.canonical_names[match.ret.matches[k][1] + 1],
                              in_country.canonical_names[match.ret.matches[k][2] + 1],
                              COUNTRY_NORM_COUNTRY_MAP[country_codes[1]],
                              match.ret.score)]
         IN  CHOOSE r \in
                 {FuzzyLoop([candidates |-> acc.candidates \o Matches(match), g |-> match.g,
                             searched |-> Append(acc.searched, country_codes[1])],
                            kind, cleaned, Tail(country_codes), min_score_levenshtein,
                            min_score_trigram) :
                     match \in {SearchWithGlobals(acc.g, cleaned, in_country,
                                                  min_score_levenshtein,
                                                  min_score_trigram)}} : TRUE

\* The two loops of normalize_region / normalize_city over the country codes
\* in iteration order, on the loaded resources: the exact lookups, and, only
\* when no country had the key (not_found), find_closest_string in each.
LocationCandidates_AlwaysSearch(loaded, kind, cleaned, country_codes, min_score_levenshtein, min_score_trigram) ==
    CHOOSE r \in
        {[fuzzy EXCEPT !.candidates = exact \o @] :
            exact \in {ExactLoop(<< >>, loaded, kind, cleaned, country_codes)},
            fuzzy \in {FuzzyLoop([candidates |-> << >>, g |-> loaded, searched |-> << >>],
                                 kind, cleaned, country_codes, min_score_levenshtein,
                                 min_score_trigram)}} : TRUE

LocationCandidates(loaded, kind, cleaned, country_codes, min_score_levenshtein, min_score_trigram) ==
    CHOOSE r \in
        {IF exact # << >>
         THEN [candidates |-> exact, g |-> loaded, searched |-> << >>]
         ELSE FuzzyLoop([candidates |-> << >>, g |-> loaded, searched |-> << >>], kind,
                        cleaned, country_codes, min_score_levenshtein, min_score_trigram) :
            exact \in {ExactLoop(<< >>, loaded, kind, cleaned, country_codes)}} : TRUE

\* The end of normalize_region / normalize_city: one candidate per dedupe key,
\* sorted.
DedupedAndSorted(candidates) ==
    CHOOSE r \in
        {SortedBy([n \in 1..Len(deduped) |-> process_multiple_names(deduped[n])],
                  LocationLess) :
            deduped \in {Deduped(candidates)}} : TRUE

\* normalize_region / normalize_city from the point where the country codes
\* are known, iterated in the order country_codes: the list returned, the
\* candidates before deduplication, the country codes find_closest_string
\* searched, the module state left.
NormalizeLocation(g, kind, cleaned, country_codes, min_score_levenshtein, min_score_trigram) ==
    CHOOSE r \in
        {[ret |-> DedupedAndSorted(found.candidates), candidates |-> found.candidates,
          searched |-> found.searched, g |-> found.g] :
            found \in
                {LocationCandidates(loaded, kind, cleaned, country_codes,
                                    min_score_levenshtein, min_score_trigram) :
                    loaded \in {AddResources(g, kind, country_codes, 1)}}} : TRUE

(***************************************************************************)
(* Calls of normalize_country, normalize_region and normalize_city on one  *)
(* input text                                                              *)
(***************************************************************************)

\* The longest text over NormalizeChars of the normalize specifications.
MaxNormalizeText == 2

NormalizeChars == {"a", "b"}

\* Texts with capitals, punctuation, digits and several tokens.
MixedTexts ==
    { <<"A", "b", ".">>, <<"B", "a", "b">>, <<"a", "b", "b">>, <<"B", "a", " ", "A", "b">>,
      <<"A", "b", "b", "a", "a">>,
      <<"1", " ", "R", "u", "s", "s", "i", "a", " ", "b">>, <<"1", ".">> }

NormalizeTexts == StringsUpTo(NormalizeChars, 0, MaxNormalizeText) \cup MixedTexts

CountryCall(min_score_levenshtein, min_score_trigram) ==
    [fn |-> "normalize_country", min_score_levenshtein |-> min_score_levenshtein,
     min_score_trigram |-> min_score_trigram]

\* restrict_countries is None when restricted is FALSE.
LocationCall(fn, restricted, restrict_countries, min_score_levenshtein, min_score_trigram) ==
    [fn |-> fn, restricted |-> restricted, restrict_countries |-> restrict_countries,
     min_score_levenshtein |-> min_score_levenshtein, min_score_trigram |-> min_score_trigram]

SetGlobals(g) ==
    /\ LEVENSHTEIN_MAP' = g.char_map
    /\ TRIGRAM_MAP' = g.trigram_map
    /\ LEVENSHTEIN_SIZE_BOUNDS' = g.size_bounds
    /\ LEVENSHTEIN_OVERLAP_BOUNDS' = g.overlap_bounds
    /\ TRIGRAM_SIZE_BOUNDS' = g.trigram_bounds
    /\ RESOURCES' = g.resources

\* The state on import, with the calls a client is about to make on a text.
InitCalls(text, calls) ==
    /\ InitCaches
    /\ InitVocab
    /\ bounds_frame = NoFrame /\ search_frame = NoFrame /\ find_frame = NoFrame
    /\ normalize_frame = [text |-> text, calls |-> calls, returned |-> EmptyDict]

\* normalize_country(text, min_score_levenshtein, min_score_trigram)
NormalizeCountry ==
    /\ \E call \in normalize_frame.calls \ DOMAIN normalize_frame.returned :
          /\ call.fn = "normalize_country"
          /\ \E r \in {normalize_country(Globals, normalize_frame.text,
                                         call.min_score_levenshtein,
                                         call.min_score_trigram)} :
                /\ normalize_frame' =
                       [normalize_frame EXCEPT !.returned =
                           DictSet(@, call, [ret |-> r.ret, step |-> r.step,
                                             levenshtein |-> r.levenshtein])]
                /\ SetGlobals(r.g)
    /\ UNCHANGED <<bounds_frame, search_frame, find_frame>>

\* The country codes of a call of normalize_region / normalize_city.
CountryCodesOfCall(g, call) ==
    IF call.restricted THEN normalize_country_to_country_codes(g, call.restrict_countries)
    ELSE [ret |-> ALL_COUNTRY_CODES, countries_not_found |-> << >>, g |-> g,
          warnings |-> << >>]

\* normalize_region / normalize_city (text, restrict_countries,
\* min_score_levenshtein, min_score_trigram), kind "regions" / "cities"; the
\* set of country codes is iterated in any order.
NormalizeLocationCall(fn, kind) ==
    /\ \E call \in normalize_frame.calls \ DOMAIN normalize_frame.returned :
          /\ call.fn = fn
          /\ \E cleaned \in {clean_geo_string(normalize_frame.text)} :
                IF cleaned = << >>
                THEN /\ normalize_frame' =
                            [normalize_frame EXCEPT !.returned =
                                DictSet(@, call,
                                        [ret |-> << >>, candidates |-> << >>,
                                         searched |-> << >>, country_codes |-> {},
                                         countries_not_found |-> << >>,
                                         warnings |-> << >>])]
                     /\ UNCHANGED <<cache_vars, vocab_vars, RESOURCES>>
                ELSE \E codes \in {CountryCodesOfCall(Globals, call)} :
                       \E country_codes \in IterationOrders(codes.ret) :
                         \E r \in {NormalizeLocation(codes.g, kind, cleaned, country_codes,
                                                     call.min_score_levenshtein,
                                                     call.min_score_trigram)} :
                            /\ normalize_frame' =
                                   [normalize_frame EXCEPT !.returned =
                                       DictSet(@, call,
                                               [ret |-> r.ret, candidates |-> r.candidates,
                                                searched |-> r.searched,
                                                country_codes |-> codes.ret,
                                                countries_not_found |->
                                                    codes.countries_not_found,
                                                warnings |-> codes.warnings])]
                            /\ SetGlobals(r.g)
    /\ UNCHANGED <<bounds_frame, search_frame, find_frame>>

NormalizeRegion == NormalizeLocationCall("normalize_region", "regions")

NormalizeCity == NormalizeLocationCall("normalize_city", "cities")

(***************************************************************************)
(* normalize_country at several thresholds                                 *)
(***************************************************************************)

CountryMinScores == {<<1, 2>>, <<4, 5>>, <<9, 10>>}

\* One text normalized as a country at each min_score_levenshtein, with one
\* min_score_trigram.
InitCountry ==
    \E text \in NormalizeTexts, min_score_trigram \in {<<1, 2>>, One} :
        InitCalls(text, {CountryCall(min_score_levenshtein, min_score_trigram) :
                             min_score_levenshtein \in CountryMinScores})

NextCountry == NormalizeCountry

SpecCountry == InitCountry /\ [][NextCountry]_vars

\* The calls of fn that have returned.
ReturnedCalls(fn) == {call \in DOMAIN normalize_frame.returned : call.fn = fn}

Returned(call) == normalize_frame.returned[call]

\* The canonical names of a returned list.
CanonicalNames(ret) == {ret[k].canonical_name : k \in 1..Len(ret)}

\* Two normalize_country calls on the same text with the same
\* min_score_trigram, the first at the lower min_score_levenshtein.
ThresholdPairs ==
    {pair \in ReturnedCalls("normalize_country") \X ReturnedCalls("normalize_country") :
        /\ pair[1].min_score_trigram = pair[2].min_score_trigram
        /\ ScoreLe(pair[1].min_score_levenshtein, pair[2].min_score_levenshtein)}

TrigramFallbackAtHigh(pair) ==
    /\ Returned(pair[1]).levenshtein
    /\ Returned(pair[2]).step = "find_closest_string"
    /\ ~Returned(pair[2]).levenshtein
    /\ Returned(pair[2]).ret # << >>

CountryDedupeKey(match) == <<clean_country(match.canonical_name), match.score>>

\* score descending, then canonical name ascending
CountryLess(a, b) ==
    IF a.score # b.score THEN ScoreLt(b.score, a.score)
    ELSE StrLess(a.canonical_name, b.canonical_name)

RestrictSets ==
    { {<<"A", "B">>}, {<<"b", "a">>, <<"B", "B">>}, {<<"A", "b", " ", "B", "a">>},
      {<<"B", "b", "b">>} }

LocationFunctions == {"normalize_region", "normalize_city"}

KindOf(fn) == IF fn = "normalize_region" THEN "regions" ELSE "cities"

InitNormalize ==
    \E text \in NormalizeTexts, fn \in LocationFunctions, restricted \in BOOLEAN,
       restrict_countries \in RestrictSets \cup {{}},
       min_score_levenshtein \in {<<1, 2>>, <<4, 5>>} :
        /\ restricted = (restrict_countries # {})
        /\ InitCalls(text,
                     {CountryCall(min_score_levenshtein, <<1, 2>>),
                      LocationCall(fn, restricted, restrict_countries,
                                   min_score_levenshtein, <<1, 2>>)})

NextNormalize == NormalizeCountry \/ NormalizeRegion \/ NormalizeCity

SpecNormalize == InitNormalize /\ [][NextNormalize]_vars

ReturnedLocationCalls == UNION {ReturnedCalls(fn) : fn \in LocationFunctions}

\* The country codes a returned call searched whose index has the cleaned
\* text as a key of its exact map.
CodesWithKey(call) ==
    {country_code \in Returned(call).country_codes :
        clean_geo_string(normalize_frame.text)
            \in DOMAIN RESOURCES[<<KindOf(call.fn), country_code>>].cleaned_location_map}

\* The score-1.0 match of the cleaned text in the index of country_code.
ExactMatchIn(call, country_code) ==
    LET in_country == RESOURCES[<<KindOf(call.fn), country_code>>]
        hit == in_country.cleaned_location_map[clean_geo_string(normalize_frame.text)]
    IN  NormalizedLocationMatch(in_country.canonical_names[hit[1] + 1],
                                in_country.canonical_names[hit[2] + 1],
                                COUNTRY_NORM_COUNTRY_MAP[country_code], One)

C9_LocationDedupedSorted ==
    \A call \in ReturnedLocationCalls :
        LET ret == Returned(call).ret
        IN  \A i, j \in 1..Len(ret) :
                i < j =>
                    /\ <<clean_geo_string(ret[i].canonical_name), ret[i].country,
                          ret[i].score>>
                           # <<clean_geo_string(ret[j].canonical_name), ret[j].country,
                               ret[j].score>>
                    /\ \/ ScoreLt(ret[j].score, ret[i].score)
                       \/ /\ ret[i].score = ret[j].score
                          /\ \/ StrLess(ret[i].canonical_name, ret[j].canonical_name)
                             \/ /\ ret[i].canonical_name = ret[j].canonical_name
                                /\ ~StrLess(ret[j].country, ret[i].country)

\* A call whose candidates had duplicates and still returned two matches.
C9_Witness ==
    \E call \in ReturnedLocationCalls :
        /\ Len(Returned(call).ret) >= 2
        /\ Len(Returned(call).candidates) > Len(Returned(call).ret)

\* No entry of an index reaches min_score_levenshtein in Levenshtein ratio
\* or min_score_trigram in trigram similarity to the query.
NoCloseEntry(query, index, min_score_levenshtein, min_score_trigram) ==
    \A e \in LevenshteinEntries(index.levenshtein) :
        /\ ScoreLt(LevenshteinRatio(query, e[1]), min_score_levenshtein)
        /\ ScoreLt(trigram_similarity_naive(SeqToSet(TrigramsOf(query)),
                                            SeqToSet(TrigramsOf(e[1]))),
                   min_score_trigram)

\* No step of normalize_country has a match for the text of the call.
NoCountryMatch(call) ==
    LET cleaned == clean_country(normalize_frame.text)
    IN  /\ cleaned \notin DOMAIN COUNTRY_RESOURCES.cleaned_location_map
        /\ cleaned \notin DOMAIN COUNTRY_REPLACEMENTS
        /\ pattern_match(normalize_frame.text) = None
        /\ NoCloseEntry(cleaned, COUNTRY_RESOURCES, call.min_score_levenshtein,
                        call.min_score_trigram)

\* No country code the call searched has a match for the text of the call.
NoLocationMatch(call) ==
    \A country_code \in Returned(call).country_codes :
        LET in_country == RESOURCES[<<KindOf(call.fn), country_code>>]
            cleaned == clean_geo_string(normalize_frame.text)
        IN  /\ cleaned \notin DOMAIN in_country.cleaned_location_map
            /\ NoCloseEntry(cleaned, in_country, call.min_score_levenshtein,
                            call.min_score_trigram)

MergePairs ==
    { <<{<<"A", "B">>}, {<<"B", "B">>}>>, <<{<<"B", "A">>}, {<<"B", "B">>}>>,
      <<{<<"A", "B">>}, {<<"B", "A">>}>> }

InitMerge ==
    \E text \in NormalizeTexts, fn \in LocationFunctions, pair \in MergePairs :
        InitCalls(text, {LocationCall(fn, TRUE, restrict_countries, <<1, 2>>, <<1, 2>>) :
                             restrict_countries \in {pair[1], pair[2], pair[1] \cup pair[2]}})

NextMerge == NormalizeRegion \/ NormalizeCity

SpecMerge == InitMerge /\ [][NextMerge]_vars

\* Returned calls a, b, u with the restrict_countries A, B and A \cup B.
MergeTriples ==
    {t \in ReturnedLocationCalls \X ReturnedLocationCalls \X ReturnedLocationCalls :
        /\ t[1].restrict_countries # t[2].restrict_countries
        /\ t[3].restrict_countries = t[1].restrict_countries \cup t[2].restrict_countries}

\* C8 as stated: normalize_city(x, A \cup B) is the deduplicated, sorted merge
\* of normalize_city(x, A) and normalize_city(x, B), and so for
\* normalize_region.
C8_UnionIsMerge ==
    \A t \in MergeTriples :
        Returned(t[3]).ret = DedupedAndSorted(Returned(t[1]).ret \o Returned(t[2]).ret)

\* (canonical_name, country, score) of each match of a list.
Triples(ret) == [k \in 1..Len(ret) |-> <<ret[k].canonical_name, ret[k].country, ret[k].score>>]

\* The call found the cleaned text in the exact map of a country it searched.
HasExactHit(call) == Returned(call).candidates # << >> /\ Returned(call).searched = << >>

\* C8 amended: in (canonical_name, country, score) triples, the result for
\* A \cup B is the deduplicated, sorted merge of the results for A and for B
\* when both or neither of them has an exact hit; when exactly one of them
\* has an exact hit, it is that result alone.
C8_UnionIsMergeUnlessOneExact ==
    \A t \in MergeTriples :
        Triples(Returned(t[3]).ret) =
            IF HasExactHit(t[1]) /\ ~HasExactHit(t[2]) THEN Triples(Returned(t[1]).ret)
            ELSE IF HasExactHit(t[2]) /\ ~HasExactHit(t[1]) THEN Triples(Returned(t[2]).ret)
            ELSE Triples(DedupedAndSorted(Returned(t[1]).ret \o Returned(t[2]).ret))

\* Neither A nor B has an exact hit and both return similarity matches.
C8_Witness ==
    \E t \in MergeTriples :
        /\ ~HasExactHit(t[1]) /\ ~HasExactHit(t[2])
        /\ Returned(t[1]).ret # << >> /\ Returned(t[2]).ret # << >>

(***************************************************************************)
(* process_multiple_names on lists of candidates                           *)
(***************************************************************************)

\* Canonical names with spaces, punctuation and different lengths.
CandidateNames ==
    { <<"A", "b">>, <<"A", " ", "b">>, <<"A", "b", "b", "b">>, <<"A", "b", ".">>,
      <<"B", "-", "b">>, <<"B", "b", "b">> }

MaxCandidates == 3

CandidateLists ==
    UNION {[1..n -> {NormalizedLocationMatch(name, name, <<"A", "b", " ", "B", "a">>, One) :
                         name \in CandidateNames}] : n \in 1..MaxCandidates}

InitNames ==
    /\ InitCaches
    /\ InitVocab
    /\ bounds_frame = NoFrame /\ search_frame = NoFrame /\ find_frame = NoFrame
    /\ \E candidates \in CandidateLists :
          normalize_frame = [candidates |-> candidates, returned |-> FALSE, ret |-> None]

\* process_multiple_names(candidates)
ProcessMultipleNames ==
    /\ ~normalize_frame.returned
    /\ normalize_frame' = [normalize_frame EXCEPT
                               !.returned = TRUE,
                               !.ret = process_multiple_names(normalize_frame.candidates)]
    /\ UNCHANGED <<cache_vars, vocab_vars, RESOURCES, bounds_frame, search_frame, find_frame>>

NextNames == ProcessMultipleNames

SpecNames == InitNames /\ [][NextNames]_vars

\* The letters of a name that are not ASCII characters.
NonAsciiLetterCount(name) == Cardinality({i \in 1..Len(name) : name[i] \notin AsciiChars})

\* a is to be preferred to b: more non-ASCII letters, else longer, else
\* lexicographically first.
PreferredName(a, b) ==
    IF NonAsciiLetterCount(a) # NonAsciiLetterCount(b)
    THEN NonAsciiLetterCount(a) > NonAsciiLetterCount(b)
    ELSE IF Len(a) # Len(b) THEN Len(a) > Len(b)
    ELSE StrLess(a, b)

\* C13: process_multiple_names returns the candidate whose canonical name
\* has the most non-ASCII letters, among those the longest canonical name,
\* among those the lexicographically first.
C13_MostNonAsciiLongestFirst ==
    normalize_frame.returned =>
        LET names == {normalize_frame.candidates[k].canonical_name :
                          k \in 1..Len(normalize_frame.candidates)}
        IN  \A other \in names \ {normalize_frame.ret.canonical_name} :
                PreferredName(normalize_frame.ret.canonical_name, other)

(***************************************************************************)
(* restrict_countries with entries that are not countries                  *)
(***************************************************************************)

\* Country codes in either case, a country name, a replacement, and strings
\* that are no country: one that cleans to nothing and one without a match.
RestrictEntries ==
    { <<"A", "B">>, <<"b", "b">>, <<"A", "b", " ", "B", "a">>, <<"b", "a", "b">>, <<"1">>,
      <<"R", "R", "R", "R", "R", "R">> }

RestrictTexts == { <<"A", "b", ".">>, <<"B", "a", "b">>, <<"a", "b", "b">>, <<"b">> }

MaxRestrictEntries == 2

InitRestrict ==
    \E text \in RestrictTexts, fn \in LocationFunctions,
       restrict_countries \in SUBSET RestrictEntries :
        /\ Cardinality(restrict_countries) \in 1..MaxRestrictEntries
        /\ InitCalls(text, {LocationCall(fn, TRUE, restrict_countries, <<1, 2>>, <<1, 2>>)})

NextRestrict == NormalizeRegion \/ NormalizeCity

SpecRestrict == InitRestrict /\ [][NextRestrict]_vars

\* The countries an entry of restrict_countries stands for: the country of
\* the 2-letter code, else the first match of normalize_country, if any.
ResolvedCountry(entry) ==
    IF Len(entry) = 2 /\ Upper(entry) \in DOMAIN COUNTRY_NORM_COUNTRY_MAP
    THEN {COUNTRY_NORM_COUNTRY_MAP[Upper(entry)]}
    ELSE LET matches == normalize_country(Globals, entry, <<4, 5>>, <<1, 2>>).ret
         IN  IF matches # << >> THEN {matches[1].canonical_name} ELSE {}

UnknownEntries(call) ==
    {entry \in call.restrict_countries : ResolvedCountry(entry) \cap NormalizedCountries = {}}

\* Returned calls that resolved their restrict_countries (the text did not
\* clean to nothing).
ResolvingCalls ==
    {call \in ReturnedLocationCalls :
        call.restricted /\ clean_geo_string(normalize_frame.text) # << >>}

Range(start, end) == [start |-> start, end |-> end]

ExtractedLocation(location, substring, substring_range) ==
    [location |-> location, substring |-> substring, substring_range |-> substring_range]

\* An overlap test that lets two ranges share one character.
range_has_overlap_OneOff(range_1, range_2) ==
    Max(range_1.start, range_2.start) < Min(range_1.end, range_2.end) - 1

\* range_has_overlap on two ranges (neither is None in _find_in_string)
range_has_overlap(range_1, range_2) ==
    Max(range_1.start, range_2.start) < Min(range_1.end, range_2.end)

RECURSIVE cumsum(_)
cumsum(x) ==
    IF x = << >> THEN << >>
    ELSE LET y == cumsum(SubSeq(x, 1, Len(x) - 1))
         IN  Append(y, (IF y = << >> THEN 0 ELSE y[Len(y)]) + x[Len(x)])

\* token_start_idx = [0] + cumsum(len(token) for token in tokens)
TokenStartIdx(tokens) == <<0>> \o cumsum([i \in 1..Len(tokens) |-> Len(tokens[i])])

\* The default threshold_small of the find functions.
ThresholdSmall == 4

\* The default max_tokens_to_consider of each find function.
MaxTokensToConsider(fn) == IF fn = "find_country_in_string" THEN 4 ELSE 6

\* blacklist and whitelist_last_resort of each find function
Blacklist(fn) ==
    IF fn = "find_country_in_string"
    THEN ALL_COUNTRY_CODES \cup {Lower(cc) : cc \in ALL_COUNTRY_CODES} \cup {<<"u">>}
    ELSE {}

WhitelistLastResort(fn) == IF fn = "find_country_in_string" THEN ALL_COUNTRY_CODES ELSE {}

\* normalize_func(combination, [restrict_countries,] min_score_levenshtein=
\* threshold, min_score_trigram=threshold) of the find call: the list
\* returned and the module state left. The unrestricted set of all country
\* codes is iterated in the order find.order, a restricted set in one order.
NormalizeFunc(g, find, combination, threshold) ==
    IF find.fn = "find_country_in_string"
    THEN CHOOSE r \in {[ret |-> n.ret, g |-> n.g] :
                           n \in {normalize_country(g, combination, threshold, threshold)}} :
             TRUE
    ELSE IF clean_geo_string(combination) = << >> THEN [ret |-> << >>, g |-> g]
    ELSE CHOOSE r \in
             {[ret |-> n.ret, g |-> n.g] :
                 n \in {NormalizeLocation(
                            codes.g,
                            IF find.fn = "find_region_in_string" THEN "regions" ELSE "cities",
                            clean_geo_string(combination),
                            IF find.restricted THEN SetToSeq(codes.ret) ELSE find.order,
                            threshold, threshold) :
                            codes \in {CountryCodesOfCall(
                                           g, [restricted |-> find.restricted,
                                               restrict_countries |-> find.country_set])}}} :
             TRUE

\* max(matches_found, key=lambda match_: match_.score): the first of the
\* matches with the highest score.
MaxByScore(matches_found) ==
    matches_found[CHOOSE k \in 1..Len(matches_found) :
                      /\ \A j \in 1..Len(matches_found) :
                             ScoreLe(matches_found[j].score, matches_found[k].score)
                      /\ \A j \in 1..(k - 1) :
                             ScoreLt(matches_found[j].score, matches_found[k].score)]

\* _get_matches with match_threshold for every combination.
get_matches_OneThreshold(g, find, combination, token_start_idx, start_idx) ==
    LET str_start_idx == token_start_idx[start_idx + 1] + start_idx
        str_end_idx == str_start_idx + Len(combination)
    IN  CHOOSE r \in
            {[match |-> IF matches_found.ret = << >> THEN None
                        ELSE ExtractedLocation(MaxByScore(matches_found.ret), combination,
                                               Range(str_start_idx, str_end_idx)),
              g |-> matches_found.g] :
                matches_found \in {NormalizeFunc(g, find, combination, MatchThreshold)}} :
            TRUE

\* _get_matches: the ExtractedLocation or None, and the module state left.
get_matches(g, find, combination, token_start_idx, start_idx) ==
    LET threshold == IF Len(combination) > ThresholdSmall THEN MatchThreshold
                     ELSE MatchThresholdSmall
        str_start_idx == token_start_idx[start_idx + 1] + start_idx
        str_end_idx == str_start_idx + Len(combination)
    IN  CHOOSE r \in
            {[match |-> IF matches_found.ret = << >> THEN None
                        ELSE ExtractedLocation(MaxByScore(matches_found.ret), combination,
                                               Range(str_start_idx, str_end_idx)),
              g |-> matches_found.g] :
                matches_found \in {NormalizeFunc(g, find, combination, threshold)}} : TRUE

\* for n_tokens in range(n_tokens, stop): for start_idx in range(0, len(tokens)
\* + 1 - n_tokens): the pairs (n_tokens, start_idx) in loop order.
RECURSIVE Windows(_, _, _)
Windows(n, n_tokens, stop) ==
    IF n_tokens >= stop THEN << >>
    ELSE [k \in 1..Max(0, n + 1 - n_tokens) |-> <<n_tokens, k - 1>>]
         \o Windows(n, n_tokens + 1, stop)

\* ' '.join(tokens[start_idx:start_idx + n_tokens]).rstrip(' .,-()')
Combination(tokens, window) ==
    RStrip(Join(Slice(tokens, window[2], window[2] + window[1]), <<" ">>),
           {" ", ".", ",", "-", "(", ")"})

\* The body of the two loops over the combinations: the first skips the
\* blacklisted ones, the last resort the ones not whitelisted. examined
\* lists the (n_tokens, start_idx) the loop went through.
RECURSIVE MatchLoop(_, _, _, _, _, _)
MatchLoop(acc, find, tokens, token_start_idx, windows, last_resort) ==
    IF windows = << >> THEN acc
    ELSE LET combination == Combination(tokens, windows[1])
             skipped == IF last_resort
                        THEN combination \notin WhitelistLastResort(find.fn)
                        ELSE \/ combination \in Blacklist(find.fn)
                             \/ clean_geo_string(combination) \in Blacklist(find.fn)
             Rest(next) == MatchLoop(next, find, tokens, token_start_idx, Tail(windows),
                                     last_resort)
         IN  IF skipped THEN Rest([acc EXCEPT !.examined = Append(@, windows[1])])
             ELSE CHOOSE r \in
                      {Rest([matches |-> IF m.match = None THEN acc.matches
                                         ELSE Append(acc.matches, m.match),
                             g |-> m.g,
                             examined |-> Append(acc.examined, windows[1]),
                             first_matches |-> acc.first_matches,
                             last_resort |-> acc.last_resort]) :
                          m \in {get_matches(acc.g, find, combination, token_start_idx,
                                             windows[1][2])}} : TRUE

\* key=lambda c: -c.location.score
ScoreDescending(a, b) == ScoreLt(b.location.score, a.location.score)

\* _find_in_string up to the sorted list of matches, with the last-resort
\* loop run whenever the blacklist is not empty.
CollectMatches_AlwaysLastResort(g, find) ==
    LET tokens == Split(find.sample)
        token_start_idx == TokenStartIdx(tokens)
    IN  CHOOSE r \in
            {[matches |-> SortedBy(all.matches, ScoreDescending), g |-> all.g,
              examined |-> all.examined, first_matches |-> all.first_matches,
              last_resort |-> all.last_resort] :
                all \in
                    {IF Blacklist(find.fn) # {}
                     THEN [MatchLoop(first, find, tokens, token_start_idx,
                                     Windows(Len(tokens), 1, 2), TRUE)
                               EXCEPT !.examined = first.examined,
                                      !.first_matches = first.matches,
                                      !.last_resort = TRUE]
                     ELSE [first EXCEPT !.first_matches = first.matches] :
                        first \in
                            {MatchLoop([matches |-> << >>, g |-> g, examined |-> << >>,
                                        first_matches |-> << >>, last_resort |-> FALSE],
                                       find, tokens, token_start_idx,
                                       Windows(Len(tokens), 1, find.max_tokens_to_consider),
                                       FALSE)}}} : TRUE

\* _find_in_string up to the sorted list of matches: the sorted matches, the
\* module state left, the (n_tokens, start_idx) of the first loop, the
\* matches of the first loop, and whether the last-resort loop ran.
CollectMatches(g, find) ==
    LET tokens == Split(find.sample)
        token_start_idx == TokenStartIdx(tokens)
    IN  CHOOSE r \in
            {[matches |-> SortedBy(all.matches, ScoreDescending), g |-> all.g,
              examined |-> all.examined, first_matches |-> all.first_matches,
              last_resort |-> all.last_resort] :
                all \in
                    {IF first.matches = << >> /\ Blacklist(find.fn) # {}
                     THEN [MatchLoop(first, find, tokens, token_start_idx,
                                     Windows(Len(tokens), 1, 2), TRUE)
                               EXCEPT !.examined = first.examined,
                                      !.first_matches = first.matches,
                                      !.last_resort = TRUE]
                     ELSE [first EXCEPT !.first_matches = first.matches] :
                        first \in
                            {MatchLoop([matches |-> << >>, g |-> g, examined |-> << >>,
                                        first_matches |-> << >>, last_resort |-> FALSE],
                                       find, tokens, token_start_idx,
                                       Windows(Len(tokens), 1, find.max_tokens_to_consider),
                                       FALSE)}}} : TRUE

\* The inner loop with the comparison of the scores alone.
RECURSIVE SkipMatch_ScoreOnly(_, _, _, _)
SkipMatch_ScoreOnly(matches, keep_matches, idx_1, idx_2) ==
    IF idx_2 > Len(matches) THEN FALSE
    ELSE IF /\ keep_matches[idx_2] # 0
            /\ range_has_overlap(matches[idx_1].substring_range,
                                 matches[idx_2].substring_range)
            /\ ScoreLt(matches[idx_1].location.score, matches[idx_2].location.score)
    THEN TRUE
    ELSE SkipMatch_ScoreOnly(matches, keep_matches, idx_1, idx_2 + 1)

\* The inner loop over the matches after idx_1, from idx_2 on: whether
\* match idx_1 is skipped in this pass (positions count from 1).
RECURSIVE SkipMatch(_, _, _, _)
SkipMatch(matches, keep_matches, idx_1, idx_2) ==
    IF idx_2 > Len(matches) THEN FALSE
    ELSE LET match_1 == matches[idx_1]
             match_2 == matches[idx_2]
             continue == SkipMatch(matches, keep_matches, idx_1, idx_2 + 1)
         IN  IF keep_matches[idx_2] # 0
                /\ range_has_overlap(match_1.substring_range, match_2.substring_range)
             THEN IF ScoreLt(match_2.location.score, match_1.location.score) THEN continue
                  ELSE IF ScoreLt(match_1.location.score, match_2.location.score) THEN TRUE
                  ELSE IF Len(match_1.location.canonical_name)
                              > Len(match_2.location.canonical_name) THEN continue
                  ELSE IF Len(match_1.location.canonical_name)
                              < Len(match_2.location.canonical_name) THEN TRUE
                  ELSE IF Len(match_1.substring) < Len(match_2.substring) THEN continue
                  ELSE IF Len(match_1.substring) > Len(match_2.substring) THEN TRUE
                  ELSE continue
             ELSE continue

\* The acceptance without the dismissal of the overlapping matches.
Accept_MarkOnly(matches, keep_matches, idx_1) ==
    [idx_2 \in 1..Len(matches) |-> IF idx_2 = idx_1 THEN 2 ELSE keep_matches[idx_2]]

\* The acceptance with the dismissal of every other match.
Accept_DismissAll(matches, keep_matches, idx_1) ==
    [idx_2 \in 1..Len(matches) |-> IF idx_2 = idx_1 THEN 2 ELSE 0]

\* if not skip_match: keep_matches[idx_1] = 2, and 0 for every other match
\* that overlaps match_1
Accept(matches, keep_matches, idx_1) ==
    [idx_2 \in 1..Len(matches) |->
        IF idx_2 = idx_1 THEN 2
        ELSE IF range_has_overlap(matches[idx_1].substring_range,
                                  matches[idx_2].substring_range) THEN 0
        ELSE keep_matches[idx_2]]

\* The body of the loop without the test for a match already decided.
ResolveOne_Redecide(matches, keep_matches, idx_1) ==
    IF SkipMatch(matches, keep_matches, idx_1, idx_1 + 1)
    THEN keep_matches
    ELSE Accept(matches, keep_matches, idx_1)

\* The body of for idx_1, match_1 in enumerate(matches), for one idx_1.
ResolveOne(matches, keep_matches, idx_1) ==
    IF keep_matches[idx_1] \in {0, 2} \/ SkipMatch(matches, keep_matches, idx_1, idx_1 + 1)
    THEN keep_matches
    ELSE Accept(matches, keep_matches, idx_1)

\* One pass of the while loop: for idx_1, match_1 in enumerate(matches), from
\* idx_1 on.
RECURSIVE ResolveFrom(_, _, _)
ResolveFrom(matches, keep_matches, idx_1) ==
    IF idx_1 > Len(matches) THEN keep_matches
    ELSE ResolveFrom(matches, ResolveOne(matches, keep_matches, idx_1), idx_1 + 1)

\* The filter with the dismissed matches returned.
RECURSIVE Kept_Dismissed(_, _, _)
Kept_Dismissed(matches, keep_matches, idx) ==
    IF idx > Len(matches) THEN << >>
    ELSE (IF keep_matches[idx] = 0 THEN <<matches[idx]>> ELSE << >>)
         \o Kept_Dismissed(matches, keep_matches, idx + 1)

\* The filter with the accepted matches in the opposite order.
RECURSIVE Kept_Reversed(_, _, _)
Kept_Reversed(matches, keep_matches, idx) ==
    IF idx > Len(matches) THEN << >>
    ELSE Kept_Reversed(matches, keep_matches, idx + 1)
         \o (IF keep_matches[idx] = 2 THEN <<matches[idx]>> ELSE << >>)

\* [c for idx, c in enumerate(matches) if keep_matches[idx] == 2]
RECURSIVE Kept(_, _, _)
Kept(matches, keep_matches, idx) ==
    IF idx > Len(matches) THEN << >>
    ELSE (IF keep_matches[idx] = 2 THEN <<matches[idx]>> ELSE << >>)
         \o Kept(matches, keep_matches, idx + 1)

\* The most tokens of a sample.
MaxSampleTokens == 3

SampleTokens == {<<"A", "b", ".">>, <<"B", "A">>, <<"B">>}

RECURSIVE TokenLists(_)
TokenLists(n) ==
    IF n = 0 THEN {<< >>}
    ELSE {Append(tokens, token) : tokens \in TokenLists(n - 1), token \in SampleTokens}

\* Samples of one to MaxSampleTokens tokens: single spaces, a leading space,
\* or two spaces between the tokens.
Samples ==
    UNION {{Join(tokens, <<" ">>), <<" ">> \o Join(tokens, <<" ">>),
            Join(tokens, <<" ", " ">>)} :
               tokens \in UNION {TokenLists(n) : n \in 1..MaxSampleTokens}}

\* The calls: a find function, its country_set (None when restricted is
\* FALSE) and its max_tokens_to_consider.
FindCall(fn, restricted, country_set, max_tokens_to_consider) ==
    [fn |-> fn, restricted |-> restricted, country_set |-> country_set,
     max_tokens_to_consider |-> max_tokens_to_consider]

FindCalls ==
    {FindCall("find_country_in_string", FALSE, {},
              MaxTokensToConsider("find_country_in_string")),
     FindCall("find_region_in_string", FALSE, {},
              MaxTokensToConsider("find_region_in_string")),
     FindCall("find_city_in_string", TRUE, {<<"B", "B">>},
              MaxTokensToConsider("find_city_in_string"))}

\* A client about to call a find function on a sample, after import.
InitFindOn(samples, calls) ==
    /\ InitCaches
    /\ InitVocab
    /\ bounds_frame = NoFrame /\ search_frame = NoFrame /\ normalize_frame = NoFrame
    /\ \E sample \in samples, call \in calls :
          find_frame = [pc |-> "collect", fn |-> call.fn, restricted |-> call.restricted,
                        country_set |-> call.country_set,
                        max_tokens_to_consider |-> call.max_tokens_to_consider,
                        sample |-> sample, order |-> << >>, examined |-> << >>,
                        first_matches |-> << >>, last_resort |-> FALSE,
                        matches |-> << >>, keep_matches |-> << >>, result |-> << >>]

InitFind == InitFindOn(Samples, FindCalls)

\* _find_in_string from its start to keep_matches = [1 for _ in matches]
FindMatches ==
    /\ find_frame.pc = "collect"
    /\ \E order \in IF find_frame.fn = "find_country_in_string" \/ find_frame.restricted
                     THEN {<< >>} ELSE IterationOrders(ALL_COUNTRY_CODES) :
          \E r \in {CollectMatches(Globals, [find_frame EXCEPT !.order = order])} :
             /\ find_frame' = [find_frame EXCEPT
                                  !.order = order,
                                  !.examined = r.examined,
                                  !.first_matches = r.first_matches,
                                  !.last_resort = r.last_resort,
                                  !.matches = r.matches,
                                  !.keep_matches = [k \in 1..Len(r.matches) |-> 1],
                                  !.pc = IF r.matches = << >> THEN "filter" ELSE "resolve"]
             /\ SetGlobals(r.g)
    /\ UNCHANGED <<bounds_frame, search_frame, normalize_frame>>

\* One iteration of while any(match == 1 for match in keep_matches), with
\* the fail-safe break.
ResolvePass ==
    /\ find_frame.pc = "resolve"
    /\ LET keep_matches == ResolveFrom(find_frame.matches, find_frame.keep_matches, 1)
       IN  find_frame' = [find_frame EXCEPT
                             !.keep_matches = keep_matches,
                             !.pc = IF keep_matches = find_frame.keep_matches
                                       \/ \A k \in 1..Len(keep_matches) : keep_matches[k] # 1
                                    THEN "filter" ELSE "resolve"]
    /\ UNCHANGED <<cache_vars, vocab_vars, RESOURCES, bounds_frame, search_frame,
                   normalize_frame>>

\* return [c for idx, c in enumerate(matches) if keep_matches[idx] == 2]
ReturnKept ==
    /\ find_frame.pc = "filter"
    /\ find_frame' = [find_frame EXCEPT
                         !.result = Kept(find_frame.matches, find_frame.keep_matches, 1),
                         !.pc = "done"]
    /\ UNCHANGED <<cache_vars, vocab_vars, RESOURCES, bounds_frame, search_frame,
                   normalize_frame>>

NextFind == FindMatches \/ ResolvePass \/ ReturnKept

SpecFind == InitFind /\ [][NextFind]_vars

\* C1: no two matches a find function returns have overlapping spans:
\* max(a.start, b.start) >= min(a.end, b.end) for any two of them.
C1_NoOverlap ==
    find_frame.pc = "done" =>
        \A i, j \in 1..Len(find_frame.result) :
            i # j =>
                LET a == find_frame.result[i].substring_range
                    b == find_frame.result[j].substring_range
                IN  (IF a.start >= b.start THEN a.start ELSE b.start)
                        >= (IF a.end <= b.end THEN a.end ELSE b.end)

\* A call that found overlapping matches and returned what it kept of them.
C1_Witness ==
    /\ find_frame.pc = "done"
    /\ Len(find_frame.result) >= 1
    /\ \E i, j \in 1..Len(find_frame.matches) :
          /\ i # j
          /\ find_frame.matches[i].substring_range.start
                 < find_frame.matches[j].substring_range.end
          /\ find_frame.matches[j].substring_range.start
                 < find_frame.matches[i].substring_range.end

\* C7: the span of every returned match covers the matched substring in the
\* sample: sample[start:end] == substring.
C7_SpanIsSubstring ==
    find_frame.pc = "done" =>
        \A k \in 1..Len(find_frame.result) :
            Slice(find_frame.sample, find_frame.result[k].substring_range.start,
                  find_frame.result[k].substring_range.end)
                = find_frame.result[k].substring

\* Whether a combination, raw or cleaned, is in the blacklist of the call.
Blacklisted(fn, combination) ==
    \/ combination \in Blacklist(fn)
    \/ clean_geo_string(combination) \in Blacklist(fn)

\* C16: a match whose combination, raw or cleaned, is in the blacklist is
\* returned only if the first loop over the windows found no match, the
\* blacklist is not empty and the combination is one token that is in
\* whitelist_last_resort; and the last-resort loop is not run when the first
\* loop found a match or the blacklist is empty.
C16_BlacklistedOnlyAsLastResort ==
    find_frame.pc = "done"
        => /\ \A k \in 1..Len(find_frame.result) :
                  LET combination == find_frame.result[k].substring
                  IN  Blacklisted(find_frame.fn, combination)
                          => /\ find_frame.first_matches = << >>
                             /\ Blacklist(find_frame.fn) # {}
                             /\ combination \in SeqToSet(Split(find_frame.sample))
                             /\ combination \in WhitelistLastResort(find_frame.fn)
           /\ (find_frame.first_matches # << >> \/ Blacklist(find_frame.fn) = {})
                  => ~find_frame.last_resort

\* A call that returned a blacklisted country code found by the last-resort
\* loop, from a sample of more than one token.
C16_Witness ==
    /\ find_frame.pc = "done"
    /\ find_frame.last_resort
    /\ Len(Split(find_frame.sample)) > 1
    /\ \E k \in 1..Len(find_frame.result) :
           Blacklisted(find_frame.fn, find_frame.result[k].substring)

\* ---------------------------------------------------------------------------
\* The find functions called with max_tokens_to_consider given
\* ---------------------------------------------------------------------------

\* The most tokens of a sample of this specification.
MaxOptionTokens == 3

OptionTokens == {<<"A", "b">>, <<"B", "A">>, <<"B", "b">>, <<"B", "a", "b">>}

RECURSIVE TokenListsOf(_, _)
TokenListsOf(sample_tokens, n) ==
    IF n = 0 THEN {<< >>}
    ELSE {Append(tokens, token) : tokens \in TokenListsOf(sample_tokens, n - 1),
                                  token \in sample_tokens}

\* Samples of one to max_tokens tokens separated by single spaces.
SamplesOf(sample_tokens, max_tokens) ==
    {Join(tokens, <<" ">>) :
         tokens \in UNION {TokenListsOf(sample_tokens, n) : n \in 1..max_tokens}}

OptionCalls ==
    {FindCall("find_country_in_string", FALSE, {}, 2),
     FindCall("find_country_in_string", FALSE, {},
              MaxTokensToConsider("find_country_in_string")),
     FindCall("find_region_in_string", FALSE, {}, 2),
     FindCall("find_region_in_string", FALSE, {},
              MaxTokensToConsider("find_region_in_string"))}

InitOptions == InitFindOn(SamplesOf(OptionTokens, MaxOptionTokens), OptionCalls)

SpecOptions == InitOptions /\ [][NextFind]_vars

\* The windows of n_tokens consecutive tokens of a sample of n tokens, for
\* every n_tokens from 1 up to and including k.
WindowsUpTo(n, k) ==
    {<<n_tokens, start_idx>> : n_tokens \in 1..k, start_idx \in 0..(n - 1)}
        \cap {w \in (1..k) \X (0..n) : w[2] + w[1] <= n}

\* C14: with max_tokens_to_consider = k the first loop of _find_in_string
\* examines every window of n consecutive tokens of the sample for every n
\* from 1 up to and including k, and nothing else.
C14_WindowsUpToMaxTokens ==
    find_frame.pc # "collect"
        => SeqToSet(find_frame.examined)
               = WindowsUpTo(Len(Split(find_frame.sample)),
                             find_frame.max_tokens_to_consider)

\* The threshold _get_matches hands to the normalize function for a
\* combination of the given length.
ThresholdFor(length) ==
    IF length > ThresholdSmall THEN MatchThreshold ELSE MatchThresholdSmall

MaxProbeQuery == 3

\* The size at which the upper probing loop is cut off in this specification.
MaxProbeSize == 4 * MaxProbeQuery

ProbeMinScores == {Zero, <<1, 2>>, <<4, 5>>, MatchThreshold, One}

\* The branch on min_score == 0.0 with probing for every min_score.
ProbeEntry_AlwaysProbe(query_size, min_score) ==
    [pc |-> "lower", lower_bound |-> query_size, upper_bound |-> query_size,
     unbounded |-> FALSE]

\* The branch on min_score == 0.0 of both functions: lower_bound = -1 and
\* upper_bound = np.inf, or lower_bound = upper_bound = query_size and the
\* probing loops.
ProbeEntry(query_size, min_score) ==
    IF min_score = Zero
    THEN [pc |-> "store", lower_bound |-> -1, upper_bound |-> 0, unbounded |-> TRUE]
    ELSE [pc |-> "lower", lower_bound |-> query_size, upper_bound |-> query_size,
          unbounded |-> FALSE]

\* The similarity the lower probing loop computes at lower_bound.
LowerProbeScore(fn, query_size, lower_bound) ==
    IF fn = "find_levenshtein_bounds"
    THEN LevenshteinRatio(Rep("a", query_size), Rep("a", lower_bound))
    ELSE trigram_similarity_naive(0..(query_size - 1), 0..(lower_bound - 1))

\* The similarity the upper probing loop computes at upper_bound.
UpperProbeScore(fn, query_size, upper_bound) ==
    IF fn = "find_levenshtein_bounds"
    THEN LevenshteinRatio(Rep("a", query_size), Rep("a", upper_bound))
    ELSE trigram_similarity_naive(0..(query_size - 1), 0..(upper_bound - 1))

\* A call of one of the two functions, not yet started: with min_score > 0,
\* find_trigram_bounds is called on a query of at least one trigram.
InitProbe ==
    /\ InitCaches
    /\ InitVocab
    /\ search_frame = NoFrame /\ normalize_frame = NoFrame /\ find_frame = NoFrame
    /\ \E fn \in {"find_levenshtein_bounds", "find_trigram_bounds"},
          query_size \in 0..MaxProbeQuery, min_score \in ProbeMinScores :
            /\ (min_score = Zero \/ query_size >= 1)
            /\ bounds_frame = [pc |-> "start", fn |-> fn, query_size |-> query_size,
                               min_score |-> min_score, lower_bound |-> 0,
                               upper_bound |-> 0, unbounded |-> FALSE,
                               candidate_size |-> 0, overlap_lower |-> 0,
                               defaultdict |-> FALSE, overlap |-> << >>, probes |-> 0,
                               lower |-> 0]

\* if query_size not in the cache of min_score, and the branch on min_score
ProbeStart ==
    /\ bounds_frame.pc = "start"
    /\ LET f == bounds_frame
           key == <<f.min_score, f.query_size>>
           levenshtein == f.fn = "find_levenshtein_bounds"
           cache == IF levenshtein THEN LEVENSHTEIN_SIZE_BOUNDS ELSE TRIGRAM_SIZE_BOUNDS
       IN  IF key \in DOMAIN cache
           THEN bounds_frame' =
                    [f EXCEPT !.pc = "done", !.lower = cache[key].lower,
                              !.upper_bound = cache[key].upper,
                              !.unbounded = cache[key].unbounded,
                              !.defaultdict =
                                  levenshtein /\ LEVENSHTEIN_OVERLAP_BOUNDS[key].defaultdict,
                              !.overlap = IF levenshtein
                                          THEN LEVENSHTEIN_OVERLAP_BOUNDS[key].overlap
                                          ELSE << >>]
           ELSE \E entry \in {ProbeEntry(f.query_size, f.min_score)} :
                    bounds_frame' =
                        [f EXCEPT !.pc = entry.pc, !.lower_bound = entry.lower_bound,
                                  !.upper_bound = entry.upper_bound,
                                  !.unbounded = entry.unbounded]
    /\ UNCHANGED <<cache_vars, vocab_vars, RESOURCES, search_frame, normalize_frame,
                   find_frame>>

\* One test of the condition of the first while loop, and its body.
ProbeLower ==
    /\ bounds_frame.pc = "lower"
    /\ LET f == bounds_frame
       IN  IF f.lower_bound >= 0
           THEN IF ScoreLe(f.min_score, LowerProbeScore(f.fn, f.query_size, f.lower_bound))
                THEN bounds_frame' = [f EXCEPT !.lower_bound = @ - 1, !.probes = @ + 1]
                ELSE bounds_frame' = [f EXCEPT !.pc = "upper", !.probes = @ + 1]
           ELSE bounds_frame' = [f EXCEPT !.pc = "upper"]
    /\ UNCHANGED <<cache_vars, vocab_vars, RESOURCES, search_frame, normalize_frame,
                   find_frame>>

\* One test of the condition of the second while loop, and its body.
ProbeUpper ==
    /\ bounds_frame.pc = "upper"
    /\ bounds_frame.upper_bound <= MaxProbeSize
    /\ LET f == bounds_frame
       IN  IF ScoreLe(f.min_score, UpperProbeScore(f.fn, f.query_size, f.upper_bound))
           THEN bounds_frame' = [f EXCEPT !.upper_bound = @ + 1, !.probes = @ + 1]
           ELSE bounds_frame' = [f EXCEPT !.pc = "store", !.probes = @ + 1]
    /\ UNCHANGED <<cache_vars, vocab_vars, RESOURCES, search_frame, normalize_frame,
                   find_frame>>

\* The size bounds stored: lower_bound + 1, upper_bound; and for
\* find_levenshtein_bounds the overlap bounds set to a defaultdict(int) or to
\* an empty dict.
ProbeStore ==
    /\ bounds_frame.pc = "store"
    /\ LET f == bounds_frame
           key == <<f.min_score, f.query_size>>
           size == [lower |-> f.lower_bound + 1, upper |-> f.upper_bound,
                    unbounded |-> f.unbounded]
       IN  IF f.fn = "find_levenshtein_bounds"
           THEN /\ LEVENSHTEIN_SIZE_BOUNDS' = DictSet(LEVENSHTEIN_SIZE_BOUNDS, key, size)
                /\ LEVENSHTEIN_OVERLAP_BOUNDS' =
                       DictSet(LEVENSHTEIN_OVERLAP_BOUNDS, key,
                               [defaultdict |-> f.min_score = Zero, overlap |-> << >>])
                /\ bounds_frame' =
                       [f EXCEPT !.pc = IF f.min_score = Zero THEN "done" ELSE "overlap",
                                 !.lower = size.lower,
                                 !.defaultdict = f.min_score = Zero,
                                 !.candidate_size = f.lower_bound + 1,
                                 !.overlap_lower = f.lower_bound + 1]
                /\ UNCHANGED TRIGRAM_SIZE_BOUNDS
           ELSE /\ TRIGRAM_SIZE_BOUNDS' = DictSet(TRIGRAM_SIZE_BOUNDS, key, size)
                /\ bounds_frame' = [f EXCEPT !.pc = "done", !.lower = size.lower]
                /\ UNCHANGED <<LEVENSHTEIN_SIZE_BOUNDS, LEVENSHTEIN_OVERLAP_BOUNDS>>
    /\ UNCHANGED <<vocab_vars, RESOURCES, search_frame, normalize_frame, find_frame>>

\* for candidate_size in range(lower_bound + 1, upper_bound): one test of the
\* condition of the inner while loop, and its body or the assignment after it.
ProbeOverlap ==
    /\ bounds_frame.pc = "overlap"
    /\ LET f == bounds_frame
           key == <<f.min_score, f.query_size>>
           continue ==
               /\ f.overlap_lower >= 0
               /\ ScoreLe(f.min_score,
                          LevenshteinRatio(Rep("a", f.query_size),
                                           Rep("b", f.candidate_size - f.overlap_lower)
                                           \o Rep("a", f.overlap_lower)))
       IN  IF f.candidate_size >= f.upper_bound
           THEN /\ bounds_frame' = [f EXCEPT !.pc = "done"]
                /\ UNCHANGED LEVENSHTEIN_OVERLAP_BOUNDS
           ELSE IF continue
           THEN /\ bounds_frame' = [f EXCEPT !.overlap_lower = @ - 1, !.probes = @ + 1]
                /\ UNCHANGED LEVENSHTEIN_OVERLAP_BOUNDS
           ELSE \E overlap \in {f.overlap @@ (f.candidate_size :> f.overlap_lower + 1)} :
                    /\ bounds_frame' =
                           [f EXCEPT !.overlap = overlap, !.candidate_size = @ + 1,
                                     !.overlap_lower = f.candidate_size + 1,
                                     !.probes = @ + (IF f.overlap_lower >= 0 THEN 1 ELSE 0)]
                    /\ LEVENSHTEIN_OVERLAP_BOUNDS' =
                           DictSet(LEVENSHTEIN_OVERLAP_BOUNDS, key,
                                   [defaultdict |-> FALSE, overlap |-> overlap])
    /\ UNCHANGED <<LEVENSHTEIN_SIZE_BOUNDS, TRIGRAM_SIZE_BOUNDS, vocab_vars, RESOURCES,
                   search_frame, normalize_frame, find_frame>>

NextProbe == ProbeStart \/ ProbeLower \/ ProbeUpper \/ ProbeStore \/ ProbeOverlap

\* The call runs on until it returns.
SpecProbe == InitProbe /\ [][NextProbe]_vars /\ WF_vars(NextProbe)

\* What the loops leave in the caches is what ComputeLevenshteinBounds and
\* ComputeTrigramBounds give.
ProbeAgreesWithCompute ==
    bounds_frame.pc = "done"
        => LET f == bounds_frame
               key == <<f.min_score, f.query_size>>
           IN  IF f.fn = "find_levenshtein_bounds"
               THEN \E b \in {ComputeLevenshteinBounds(f.query_size, f.min_score)} :
                        /\ LEVENSHTEIN_SIZE_BOUNDS[key] = SizeBoundsOf(b)
                        /\ LEVENSHTEIN_OVERLAP_BOUNDS[key] = OverlapBoundsOf(b)
               ELSE TRIGRAM_SIZE_BOUNDS[key] = ComputeTrigramBounds(f.query_size, f.min_score)

\* C17: for min_score == 0.0 and any query size both functions return
\* without a probe, with the range (0, +infinity) and, for
\* find_levenshtein_bounds, an overlap floor of 0 for every candidate length;
\* for a min_score in (0, 1] and a query size of at least 1 the loops end and
\* the range returned is finite.
C17_BoundsTerminate ==
    /\ [](bounds_frame.pc = "done"
            => LET f == bounds_frame
               IN  IF f.min_score = Zero
                   THEN /\ f.probes = 0
                        /\ f.lower = 0 /\ f.unbounded
                        /\ f.fn = "find_levenshtein_bounds"
                               => \A size \in 0..MaxProbeSize : OverlapLowerBound(f, size) = 0
                   ELSE ~f.unbounded /\ f.lower <= f.query_size
                        /\ f.query_size < f.upper_bound)
    /\ <>(bounds_frame.pc = "done")

\* A call with min_score == 0.0 on a query of MaxProbeQuery characters has
\* returned, or a call with a min_score it had no bounds for has returned
\* after probing.
C17_Witness ==
    /\ bounds_frame.pc = "done"
    /\ bounds_frame.query_size = MaxProbeQuery
    /\ \/ bounds_frame.min_score = Zero
       \/ bounds_frame.probes > MaxProbeQuery

\* ---------------------------------------------------------------------------
\* The overlap resolution of _find_in_string on lists of collected matches,
\* match by match
\* ---------------------------------------------------------------------------

\* The number of tokens of the sample: the first has two characters, the
\* others one.
MaxResolveTokens == 3

\* The most matches the two loops have collected.
MaxResolveMatches == 4

\* The scores and the lengths of the canonical names of the matches.
ResolveAttributes == {<<One, 2>>, <<One, 3>>, <<MatchThresholdSmall, 3>>}

ResolveCall ==
    FindCall("find_country_in_string", FALSE, {},
             MaxTokensToConsider("find_country_in_string"))

\* The match _get_matches returns for a window whose combination scored
\* score against a name of name_length characters.
WindowMatch(tokens, window, score, name_length) ==
    LET combination == Combination(tokens, window)
        str_start_idx == TokenStartIdx(tokens)[window[2] + 1] + window[2]
    IN  ExtractedLocation([canonical_name |-> Rep("a", name_length),
                           matched_name |-> Rep("a", name_length), score |-> score],
                          combination,
                          Range(str_start_idx, str_start_idx + Len(combination)))

\* The matches of the windows in found, in the order of the loop.
RECURSIVE WindowMatches(_, _, _, _)
WindowMatches(tokens, windows, found, attributes) ==
    IF windows = << >> THEN << >>
    ELSE (IF windows[1] \in found
          THEN <<WindowMatch(tokens, windows[1], attributes[windows[1]][1],
                             attributes[windows[1]][2])>>
          ELSE << >>)
         \o WindowMatches(tokens, Tail(windows), found, attributes)

\* _find_in_string after the sort of the matches it collected: any windows
\* of the sample may have matched, at most MaxResolveMatches of them, with
\* any of the scores and names.
InitResolve ==
    /\ InitCaches
    /\ InitVocab
    /\ bounds_frame = NoFrame /\ search_frame = NoFrame /\ normalize_frame = NoFrame
    /\ \E tokens \in {[i \in 1..MaxResolveTokens |->
                            IF i = 1 THEN <<"a", "a">> ELSE <<"a">>]} :
         \E windows \in {Windows(Len(tokens), 1, ResolveCall.max_tokens_to_consider)} :
           \E found \in {ws \in SUBSET SeqToSet(windows) :
                             Cardinality(ws) \in 1..MaxResolveMatches} :
             \E attributes \in [found -> ResolveAttributes] :
               \E collected \in {WindowMatches(tokens, windows, found, attributes)} :
                 find_frame = [pc |-> "resolve", fn |-> ResolveCall.fn,
                               restricted |-> ResolveCall.restricted,
                               country_set |-> ResolveCall.country_set,
                               max_tokens_to_consider |->
                                   ResolveCall.max_tokens_to_consider,
                               sample |-> Join(tokens, <<" ">>), order |-> << >>,
                               examined |-> windows, first_matches |-> collected,
                               last_resort |-> FALSE,
                               matches |-> SortedBy(collected, ScoreDescending),
                               keep_matches |-> [k \in 1..Len(collected) |-> 1],
                               result |-> << >>, idx_1 |-> 0, prev |-> << >>]

\* while any(match == 1 for match in keep_matches): prev = [k for k in keep_matches]
ResolveWhile ==
    /\ find_frame.pc = "resolve"
    /\ find_frame.idx_1 = 0
    /\ find_frame' =
           IF \E k \in 1..Len(find_frame.keep_matches) : find_frame.keep_matches[k] = 1
           THEN [find_frame EXCEPT !.prev = find_frame.keep_matches, !.idx_1 = 1]
           ELSE [find_frame EXCEPT !.pc = "filter"]
    /\ UNCHANGED <<cache_vars, vocab_vars, RESOURCES, bounds_frame, search_frame,
                   normalize_frame>>

\* The body of for idx_1, match_1 in enumerate(matches), for the next idx_1.
ResolveStep ==
    /\ find_frame.pc = "resolve"
    /\ find_frame.idx_1 \in 1..Len(find_frame.matches)
    /\ find_frame' =
           [find_frame EXCEPT
               !.keep_matches = ResolveOne(find_frame.matches, find_frame.keep_matches,
                                           find_frame.idx_1),
               !.idx_1 = @ + 1]
    /\ UNCHANGED <<cache_vars, vocab_vars, RESOURCES, bounds_frame, search_frame,
                   normalize_frame>>

\* if prev == keep_matches: break
ResolveBreak ==
    /\ find_frame.pc = "resolve"
    /\ find_frame.idx_1 = Len(find_frame.matches) + 1
    /\ find_frame' =
           IF find_frame.prev = find_frame.keep_matches
           THEN [find_frame EXCEPT !.pc = "filter"]
           ELSE [find_frame EXCEPT !.idx_1 = 0]
    /\ UNCHANGED <<cache_vars, vocab_vars, RESOURCES, bounds_frame, search_frame,
                   normalize_frame>>

NextResolve == ResolveWhile \/ ResolveStep \/ ResolveBreak \/ ReturnKept

SpecResolve == InitResolve /\ [][NextResolve]_vars

\* match_1 wins against match_2 in the comparison of SkipMatch: a higher
\* score, or at the same score a longer canonical name, or at the same score
\* and length a shorter substring.
Beats(match_1, match_2) ==
    \/ ScoreLt(match_2.location.score, match_1.location.score)
    \/ /\ match_1.location.score = match_2.location.score
       /\ Len(match_1.location.canonical_name) > Len(match_2.location.canonical_name)
    \/ /\ match_1.location.score = match_2.location.score
       /\ Len(match_1.location.canonical_name) = Len(match_2.location.canonical_name)
       /\ Len(match_1.substring) < Len(match_2.substring)

Overlapping(match_1, match_2) ==
    range_has_overlap(match_1.substring_range, match_2.substring_range)

\* The while loop of _find_in_string, from keep_matches on.
RECURSIVE ResolveLoop(_, _)
ResolveLoop(matches, keep_matches) ==
    IF \A k \in 1..Len(keep_matches) : keep_matches[k] # 1 THEN keep_matches
    ELSE CHOOSE r \in
             {IF next = keep_matches THEN keep_matches ELSE ResolveLoop(matches, next) :
                  next \in {ResolveFrom(matches, keep_matches, 1)}} : TRUE

\* The sort, the while loop and the filter of _find_in_string on a list of
\* collected matches.
Resolver(collected) ==
    CHOOSE r \in
        {Kept(matches, ResolveLoop(matches, [k \in 1..Len(matches) |-> 1]), 1) :
             matches \in {SortedBy(collected, ScoreDescending)}} : TRUE

\* The step accepts the match at idx_1.
AcceptsAt(idx_1) ==
    /\ find_frame.pc = "resolve"
    /\ idx_1 = find_frame.idx_1
    /\ idx_1 \in 1..Len(find_frame.matches)
    /\ find_frame.keep_matches[idx_1] = 1
    /\ find_frame'.keep_matches[idx_1] = 2

\* C18: the sort, the while loop and the filter applied to the matches
\* _find_in_string returned give the same matches again.
C18_ResolverIdempotent ==
    find_frame.pc = "done" => Resolver(find_frame.result) = find_frame.result

\* A call that dismissed some of the matches it collected and returned more
\* than one.
C18_Witness ==
    /\ find_frame.pc = "done"
    /\ Len(find_frame.result) > 1
    /\ Len(find_frame.result) < Len(find_frame.matches)

\* C19: a match is marked accepted only when no still-undecided match that
\* overlaps it beats it, so no match is dismissed by the acceptance of an
\* overlapping match that it beats.
C19_AcceptedOnlyWhenUnbeaten ==
    [][\A idx_1 \in 1..Len(find_frame.matches) :
           AcceptsAt(idx_1)
               => \A idx_2 \in 1..Len(find_frame.matches) :
                      (/\ idx_2 # idx_1
                       /\ find_frame.keep_matches[idx_2] = 1
                       /\ Overlapping(find_frame.matches[idx_1], find_frame.matches[idx_2]))
                          => ~Beats(find_frame.matches[idx_2], find_frame.matches[idx_1])]_vars

\* Two collected matches that overlap each other and no other collected match.
OverlappingPair(matches, k, j) ==
    /\ k # j
    /\ Overlapping(matches[k], matches[j])
    /\ \A i \in 1..Len(matches) :
           i \notin {k, j} => /\ ~Overlapping(matches[i], matches[k])
                              /\ ~Overlapping(matches[i], matches[j])

\* C20: of two collected matches that overlap each other and no other
\* collected match exactly one is returned: the one with the higher score,
\* at equal scores the one with the longer canonical name, at equal lengths
\* the one with the shorter substring (either, when the substrings are
\* equally long too).
C20_PairTieBreak ==
    find_frame.pc = "done"
        => \A k, j \in 1..Len(find_frame.matches) :
               OverlappingPair(find_frame.matches, k, j)
                   => /\ (find_frame.keep_matches[k] = 2) # (find_frame.keep_matches[j] = 2)
                      /\ find_frame.keep_matches[k] = 2
                             => ~Beats(find_frame.matches[j], find_frame.matches[k])

\* A call that returned the second of two such matches: it has the score of
\* the first and a longer canonical name, or a name as long and a shorter
\* substring.
C20_Witness ==
    /\ find_frame.pc = "done"
    /\ \E k, j \in 1..Len(find_frame.matches) :
           /\ k < j
           /\ OverlappingPair(find_frame.matches, k, j)
           /\ find_frame.keep_matches[j] = 2
           /\ Len(find_frame.matches[k].location.canonical_name)
                  = Len(find_frame.matches[j].location.canonical_name)

\* The resolution under the scheduling of one thread: the interpreter runs
\* the next statement of the loop as long as there is one.
SpecResolveFair == InitResolve /\ [][NextResolve]_vars /\ WF_vars(NextResolve)

\* A match that is still uncertain.
Undecided(keep_matches) ==
    \E k \in 1..Len(keep_matches) : keep_matches[k] = 1

\* C21: the while loop of _find_in_string ends, and with every match
\* decided: a sweep that starts with an uncertain match changes keep_matches,
\* so the break of the fail-safe is never taken, and no match is uncertain
\* when the function returns.
C21_ResolutionTerminatesDecided ==
    /\ <>(find_frame.pc = "done")
    /\ []((find_frame.pc = "resolve" /\ find_frame.idx_1 = Len(find_frame.matches) + 1)
              => find_frame.prev # find_frame.keep_matches)
    /\ [](find_frame.pc \in {"filter", "done"} => ~Undecided(find_frame.keep_matches))

\* A call that returned after more than one sweep: the first sweep left a
\* match uncertain.
C21_Witness ==
    /\ find_frame.pc = "done"
    /\ Undecided(find_frame.prev)
    /\ find_frame.prev # [k \in 1..Len(find_frame.matches) |-> 1]

\* C28: when _find_in_string returns, every collected match that is not in
\* the result overlaps a match that is in the result.
C28_RejectedOverlapAccepted ==
    find_frame.pc = "done"
        => \A k \in 1..Len(find_frame.matches) :
               find_frame.matches[k] \notin SeqToSet(find_frame.result)
                   => \E j \in 1..Len(find_frame.result) :
                          Overlapping(find_frame.matches[k], find_frame.result[j])

\* A call that returned two matches and left out two: one that overlaps both
\* matches returned and one that overlaps one of them only.
C28_Witness ==
    /\ find_frame.pc = "done"
    /\ Len(find_frame.result) = 2
    /\ \E k, i \in 1..Len(find_frame.matches) :
           /\ find_frame.keep_matches[k] = 0 /\ find_frame.keep_matches[i] = 0
           /\ \A j \in 1..2 : Overlapping(find_frame.matches[k], find_frame.result[j])
           /\ \E j \in 1..2 : ~Overlapping(find_frame.matches[i], find_frame.result[j])

\* C29: in the while loop no statement changes the state of a match that is
\* accepted (2) or dismissed (0): a state changes only from uncertain (1).
C29_DecisionsFinal ==
    [][find_frame.pc = "resolve"
          => \A k \in 1..Len(find_frame.keep_matches) :
                 find_frame.keep_matches[k] \in {0, 2}
                     => find_frame'.keep_matches[k] = find_frame.keep_matches[k]]_vars

\* A later sweep at an accepted match, with a dismissed match and a match
\* still uncertain in the list.
C29_Witness ==
    /\ find_frame.pc = "resolve"
    /\ find_frame.idx_1 \in 1..Len(find_frame.matches)
    /\ find_frame.keep_matches[find_frame.idx_1] = 2
    /\ find_frame.prev # [k \in 1..Len(find_frame.matches) |-> 1]
    /\ Undecided(find_frame.keep_matches)
    /\ \E k \in 1..Len(find_frame.matches) : find_frame.keep_matches[k] = 0

\* The number of tokens joined in the substring of a match.
NTokens(substring) ==
    1 + Cardinality({i \in 1..Len(substring) : substring[i] = " "})

\* The window of match a is enumerated before the window of match b by the
\* loops over n_tokens and start_idx.
WindowBefore(a, b) ==
    \/ NTokens(a.substring) < NTokens(b.substring)
    \/ /\ NTokens(a.substring) = NTokens(b.substring)
       /\ a.substring_range.start < b.substring_range.start

\* C30: the list a find function returns is in non-increasing order of
\* score, and of two matches with the same score the one whose window has
\* fewer tokens comes first, at the same number of tokens the one that
\* starts at the smaller token index.
C30_OutputOrder ==
    find_frame.pc = "done"
        => \A i, j \in 1..Len(find_frame.result) :
               i < j => LET a == find_frame.result[i]
                            b == find_frame.result[j]
                        IN  /\ ScoreLe(b.location.score, a.location.score)
                            /\ a.location.score = b.location.score => WindowBefore(a, b)

\* A call that returned two matches with the same score of which the first
\* starts later in the sample than the second, and dismissed a match with a
\* score at least as high.
C30_Witness ==
    /\ find_frame.pc = "done"
    /\ \E i, j \in 1..Len(find_frame.result) :
           /\ i < j
           /\ find_frame.result[i].location.score = find_frame.result[j].location.score
           /\ find_frame.result[j].substring_range.start
                  < find_frame.result[i].substring_range.start
    /\ \E k \in 1..Len(find_frame.matches) :
           /\ find_frame.keep_matches[k] = 0
           /\ ScoreLe(find_frame.result[1].location.score,
                      find_frame.matches[k].location.score)

\* ---------------------------------------------------------------------------
\* add_region_resources and add_city_resources, statement by statement, called
\* directly and by normalize_region and normalize_city, from one thread or two
\* ---------------------------------------------------------------------------

\* The most calls the client of the sequential specification makes.
MaxLoadCalls == 2

LoadFunctions ==
    {"add_region_resources", "add_city_resources", "normalize_region", "normalize_city"}

LoadKind(fn) ==
    IF fn \in {"add_region_resources", "normalize_region"} THEN "regions" ELSE "cities"

\* The texts normalized: the second is cleaned to the empty string.
LoadTexts == { <<"A", "b">>, <<"1">> }

\* How often a file was read (an index was inserted), per kind and code.
CountOf(counts, key) == IF key \in DOMAIN counts THEN counts[key] ELSE 0

Counted(counts, key) == DictSet(counts, key, CountOf(counts, key) + 1)

\* A thread between two calls.
IdleThread(calls_left, code_sets, restricts) ==
    [pc |-> "idle", fn |-> "", cleaned |-> << >>, country_codes |-> << >>, k |-> 0,
     lines |-> << >>, inserted |-> {}, calls_left |-> calls_left,
     code_sets |-> code_sets, restricts |-> restricts]

\* The threads of a client after import: each makes calls_left calls, passing
\* sets of country codes of code_sets and restrict_countries of restricts.
InitLoadOn(threads, calls_left, code_sets, restricts) ==
    /\ InitCaches
    /\ InitVocab
    /\ bounds_frame = NoFrame /\ search_frame = NoFrame /\ find_frame = NoFrame
    /\ normalize_frame =
           [threads |-> [t \in threads |-> IdleThread(calls_left, code_sets, restricts)],
            reads |-> EmptyDict, inserts |-> EmptyDict]

LoadThread(t) == normalize_frame.threads[t]

LoadKey(t) ==
    <<LoadKind(LoadThread(t).fn), LoadThread(t).country_codes[LoadThread(t).k]>>

\* add_region_resources(country_codes) / add_city_resources(country_codes)
\* called by the client: the loop iterates the set in any order.
AddResourcesCall(t) ==
    /\ LoadThread(t).pc = "idle"
    /\ LoadThread(t).calls_left > 0
    /\ \E fn \in {"add_region_resources", "add_city_resources"},
          codes \in LoadThread(t).code_sets :
          \E country_codes \in IterationOrders(codes) :
             normalize_frame' =
                 [normalize_frame EXCEPT !.threads[t] =
                     [@ EXCEPT !.pc = "check", !.fn = fn, !.country_codes = country_codes,
                               !.k = 1, !.inserted = {}]]
    /\ UNCHANGED <<cache_vars, vocab_vars, RESOURCES, bounds_frame, search_frame, find_frame>>

\* normalize_region / normalize_city up to its call of add_region_resources /
\* add_city_resources: an empty cleaned text returns at once.
NormalizeCall(t) ==
    /\ LoadThread(t).pc = "idle"
    /\ LoadThread(t).calls_left > 0
    /\ \E fn \in {"normalize_region", "normalize_city"}, text \in LoadTexts,
          restrict_countries \in LoadThread(t).restricts :
          \E cleaned \in {clean_geo_string(text)} :
             IF cleaned = << >>
             THEN /\ normalize_frame' =
                         [normalize_frame EXCEPT !.threads[t] =
                             [@ EXCEPT !.fn = fn, !.cleaned = cleaned, !.country_codes = << >>,
                                       !.k = 0, !.inserted = {}, !.calls_left = @ - 1]]
                  /\ UNCHANGED <<cache_vars, vocab_vars, RESOURCES>>
             ELSE \E codes \in {CountryCodesOfCall(Globals,
                                     LocationCall(fn, restrict_countries # {},
                                                  restrict_countries, <<4, 5>>, <<1, 2>>))} :
                    \E country_codes \in IterationOrders(codes.ret) :
                       /\ normalize_frame' =
                              [normalize_frame EXCEPT !.threads[t] =
                                  [@ EXCEPT !.pc = "check", !.fn = fn, !.cleaned = cleaned,
                                            !.country_codes = country_codes, !.k = 1,
                                            !.inserted = {}]]
                       /\ SetGlobals(codes.g)
    /\ UNCHANGED <<bounds_frame, search_frame, find_frame>>

\* A loop that reads the file of a code whether it is loaded or not.
LoadCheck_NoSkip(t) ==
    /\ LoadThread(t).pc = "check"
    /\ normalize_frame' =
           [normalize_frame EXCEPT !.threads[t] =
               IF LoadThread(t).k > Len(LoadThread(t).country_codes)
               THEN [@ EXCEPT !.pc = "loaded"]
               ELSE [@ EXCEPT !.pc = "read"]]
    /\ UNCHANGED <<cache_vars, vocab_vars, RESOURCES, bounds_frame, search_frame, find_frame>>

\* for country_code in country_codes: if country_code in
\* _REGION_RESOURCES['regions_per_country_code_map']: continue
LoadCheck(t) ==
    /\ LoadThread(t).pc = "check"
    /\ normalize_frame' =
           [normalize_frame EXCEPT !.threads[t] =
               IF LoadThread(t).k > Len(LoadThread(t).country_codes)
               THEN [@ EXCEPT !.pc = "loaded"]
               ELSE IF LoadKey(t) \in DOMAIN RESOURCES
                    THEN [@ EXCEPT !.k = @ + 1]
                    ELSE [@ EXCEPT !.pc = "read"]]
    /\ UNCHANGED <<cache_vars, vocab_vars, RESOURCES, bounds_frame, search_frame, find_frame>>

\* regions = read_resource_file(__file__, f"resources/regions_per_country/{country_code}.txt")
LoadRead(t) ==
    /\ LoadThread(t).pc = "read"
    /\ normalize_frame' =
           [normalize_frame EXCEPT
               !.threads[t] = [@ EXCEPT !.pc = "build",
                                        !.lines = ResourceFile(LoadKey(t)[1], LoadKey(t)[2])],
               !.reads = Counted(@, LoadKey(t))]
    /\ UNCHANGED <<cache_vars, vocab_vars, RESOURCES, bounds_frame, search_frame, find_frame>>

\* _REGION_RESOURCES["regions_per_country_code_map"][country_code] =
\*     _add_location_resources(regions, clean_region)
LoadInsert(t) ==
    /\ LoadThread(t).pc = "build"
    /\ \E built \in {add_location_resources(LoadThread(t).lines, LEVENSHTEIN_MAP,
                                              TRIGRAM_MAP)} :
          /\ RESOURCES' = DictSet(RESOURCES, LoadKey(t), built.dict)
          /\ LEVENSHTEIN_MAP' = built.char_map
          /\ TRIGRAM_MAP' = built.trigram_map
    /\ normalize_frame' =
           [normalize_frame EXCEPT
               !.threads[t] = [@ EXCEPT !.pc = "check", !.k = @ + 1, !.lines = << >>,
                                        !.inserted = @ \cup {LoadKey(t)}],
               !.inserts = Counted(@, LoadKey(t))]
    /\ UNCHANGED <<cache_vars, bounds_frame, search_frame, find_frame>>

\* The return of add_region_resources / add_city_resources: to the client,
\* or to normalize_region / normalize_city, which looks the text up in the
\* indexes of the country codes and returns.
LoadReturn(t) ==
    /\ LoadThread(t).pc = "loaded"
    /\ normalize_frame' =
           [normalize_frame EXCEPT !.threads[t] = [@ EXCEPT !.pc = "idle", !.calls_left = @ - 1]]
    /\ IF LoadThread(t).fn \in {"add_region_resources", "add_city_resources"}
       THEN UNCHANGED <<cache_vars, vocab_vars, RESOURCES>>
       ELSE \E r \in {NormalizeLocation(Globals, LoadKind(LoadThread(t).fn),
                                          LoadThread(t).cleaned, LoadThread(t).country_codes,
                                          <<4, 5>>, <<1, 2>>)} :
               SetGlobals(r.g)
    /\ UNCHANGED <<bounds_frame, search_frame, find_frame>>

LoadThreads == DOMAIN normalize_frame.threads

NextLoad ==
    \/ \E t \in LoadThreads : AddResourcesCall(t)
    \/ \E t \in LoadThreads : NormalizeCall(t)
    \/ \E t \in LoadThreads : LoadCheck(t)
    \/ \E t \in LoadThreads : LoadRead(t)
    \/ \E t \in LoadThreads : LoadInsert(t)
    \/ \E t \in LoadThreads : LoadReturn(t)

\* The sets of country codes and of restrict_countries a client passes.
LoadCodeSets == (SUBSET ALL_COUNTRY_CODES) \ {{}}

LoadRestricts == RestrictSets \cup {{}}

\* One thread making MaxLoadCalls calls, one after the other.
InitLoad == InitLoadOn({1}, MaxLoadCalls, LoadCodeSets, LoadRestricts)

SpecLoad == InitLoad /\ [][NextLoad]_vars

LoadKeys == {"regions", "cities"} \X ALL_COUNTRY_CODES

\* A step keeps every loaded index as it is and reads a file only for a code
\* that is not loaded.
LoadedOnceStep ==
    /\ \A key \in DOMAIN RESOURCES :
           key \in DOMAIN RESOURCES' /\ RESOURCES'[key] = RESOURCES[key]
    /\ \A code \in LoadKeys :
           CountOf(normalize_frame'.reads, code) > CountOf(normalize_frame.reads, code)
               => code \notin DOMAIN RESOURCES

\* Every code the call of add_region_resources / add_city_resources of
\* thread t was asked for is loaded.
AllLoaded(t) ==
    \A k \in 1..Len(LoadThread(t).country_codes) :
        <<LoadKind(LoadThread(t).fn), LoadThread(t).country_codes[k]>> \in DOMAIN RESOURCES

\* C23: in any sequence of calls of add_region_resources, add_city_resources,
\* normalize_region and normalize_city, no step removes or changes the index
\* of a loaded code, a file is read only for a code that is not loaded and at
\* most once, and when add_*_resources returns every code it was asked for
\* is loaded.
C23_LoadOnce ==
    /\ [][LoadedOnceStep]_vars
    /\ [](\A key \in LoadKeys : CountOf(normalize_frame.reads, key) <= 1)
    /\ [](\A t \in DOMAIN normalize_frame.threads :
             LoadThread(t).pc = "loaded" => AllLoaded(t))

\* The second call about to return: it was asked for a code the first call
\* had loaded, which it skipped, and for a code it loaded itself.
C23_Witness ==
    \E t \in DOMAIN normalize_frame.threads :
        /\ LoadThread(t).pc = "loaded"
        /\ LoadThread(t).calls_left < MaxLoadCalls
        /\ LoadThread(t).inserted # {}
        /\ \E k \in 1..Len(LoadThread(t).country_codes) :
               <<LoadKind(LoadThread(t).fn), LoadThread(t).country_codes[k]>>
                   \notin LoadThread(t).inserted

\* The codes and the restrict_countries two concurrent callers pass.
ThreadCodeSets == { {<<"A", "B">>}, {<<"B", "A">>} }

ThreadRestricts == { {<<"A", "B">>} }

\* Two threads, each making one call; the interpreter may switch threads
\* between any two statements of the loop.
InitThreads == InitLoadOn({1, 2}, 1, ThreadCodeSets, ThreadRestricts)

SpecThreads == InitThreads /\ [][NextLoad]_vars

\* C27: with two concurrent callers the file of a country code is read and
\* its index inserted at most once: no caller is between the test for a
\* loaded code and the insertion while the other inserts that code.
C27_PopulatedOnce ==
    /\ \A key \in LoadKeys :
           /\ CountOf(normalize_frame.reads, key) <= 1
           /\ CountOf(normalize_frame.inserts, key) <= 1
    /\ \A t, u \in LoadThreads :
           (t # u /\ LoadThread(t).pc \in {"read", "build"}
                  /\ LoadThread(u).pc \in {"read", "build"})
               => LoadKey(t) # LoadKey(u)

\* ---------------------------------------------------------------------------
\* Calls of get_char_tokens and get_trigram_tokens, one after the other
\* ---------------------------------------------------------------------------

\* The most calls the client makes.
MaxVocabCalls == 3

\* The strings tokenized: x and y occur in no resource.
VocabStrings ==
    { << >>, <<"x">>, <<"x", "a">>, <<"y", "x">>, <<"x", "x">>, <<"a", " ", "y">> }

InitTokens ==
    /\ InitCaches
    /\ InitVocab
    /\ bounds_frame = NoFrame /\ normalize_frame = NoFrame /\ find_frame = NoFrame
    /\ search_frame = [pc |-> "tokens", calls_left |-> MaxVocabCalls, fn |-> "",
                       symbols |-> << >>, tokens |-> << >>]

\* get_char_tokens(query): the tokens as a list
GetCharTokens ==
    /\ search_frame.pc = "tokens"
    /\ search_frame.calls_left > 0
    /\ \E query \in VocabStrings :
          /\ LEVENSHTEIN_MAP' = CharMapAfter(LEVENSHTEIN_MAP, query)
          /\ search_frame' = [search_frame EXCEPT
                                  !.calls_left = @ - 1, !.fn = "get_char_tokens",
                                  !.symbols = query,
                                  !.tokens = get_char_tokens(LEVENSHTEIN_MAP, query)]
    /\ UNCHANGED <<cache_vars, TRIGRAM_MAP, RESOURCES, bounds_frame, normalize_frame,
                   find_frame>>

\* get_trigram_tokens(string): the tokens as a set
GetTrigramTokens ==
    /\ search_frame.pc = "tokens"
    /\ search_frame.calls_left > 0
    /\ \E string \in VocabStrings :
          /\ TRIGRAM_MAP' = TrigramMapAfter(TRIGRAM_MAP, string)
          /\ search_frame' = [search_frame EXCEPT
                                  !.calls_left = @ - 1, !.fn = "get_trigram_tokens",
                                  !.symbols = TrigramsOf(string),
                                  !.tokens = get_trigram_tokens(TRIGRAM_MAP, string)]
    /\ UNCHANGED <<cache_vars, LEVENSHTEIN_MAP, RESOURCES, bounds_frame, normalize_frame,
                   find_frame>>

NextTokens == GetCharTokens \/ GetTrigramTokens

SpecTokens == InitTokens /\ [][NextTokens]_vars

\* The ids of a vocabulary are 0 .. n - 1 for its n symbols.
ConsecutiveIds(vocabulary) ==
    {IdOf(vocabulary, vocabulary[i]) : i \in 1..Len(vocabulary)}
        = 0..(Cardinality(SeqToSet(vocabulary)) - 1)

\* No id is given twice: the map has as many entries as symbols.
DistinctIds(vocabulary) == Len(vocabulary) = Cardinality(SeqToSet(vocabulary))

\* A call leaves every entry of the map as it was.
StableIds(before, after) ==
    \A symbol \in SeqToSet(before) :
        symbol \in SeqToSet(after) /\ IdOf(after, symbol) = IdOf(before, symbol)

\* The symbols of the call that were new get ids above the old ones, in the
\* order of their first appearance in the string.
FirstAppearanceOrder(before, after, symbols) ==
    \A i, j \in 1..Len(symbols) :
        (/\ symbols[i] \notin SeqToSet(before)
         /\ \A h \in 1..(i - 1) : symbols[h] # symbols[i]
         /\ \/ symbols[j] \in SeqToSet(before)
            \/ (j < i /\ symbols[j] # symbols[i]))
            => IdOf(after, symbols[j]) < IdOf(after, symbols[i])

VocabStep(before, after) ==
    /\ StableIds(before, after)
    /\ before # after => FirstAppearanceOrder(before, after, search_frame'.symbols)

\* C24: in any sequence of calls of get_char_tokens and get_trigram_tokens
\* the ids of each vocabulary are distinct and consecutive from 0, a call
\* changes or removes no entry, the symbols new in a call get the next ids in
\* the order of their first appearance, and the tokens returned are the ids
\* of the symbols of the string.
C24_VocabularyStable ==
    /\ [](ConsecutiveIds(LEVENSHTEIN_MAP) /\ DistinctIds(LEVENSHTEIN_MAP))
    /\ [](ConsecutiveIds(TRIGRAM_MAP) /\ DistinctIds(TRIGRAM_MAP))
    /\ [][VocabStep(LEVENSHTEIN_MAP, LEVENSHTEIN_MAP')
            /\ VocabStep(TRIGRAM_MAP, TRIGRAM_MAP')]_vars
    /\ [](search_frame.fn = "get_char_tokens"
             => search_frame.tokens = [i \in 1..Len(search_frame.symbols) |->
                                         IdOf(LEVENSHTEIN_MAP, search_frame.symbols[i])])
    /\ [](search_frame.fn = "get_trigram_tokens"
             => search_frame.tokens = {IdOf(TRIGRAM_MAP, search_frame.symbols[i]) :
                                         i \in 1..Len(search_frame.symbols)})

\* The last call has returned: it tokenized 'yx' when x had an id and y had
\* none, so x has a smaller id than y.
C24_Witness ==
    /\ search_frame.pc = "tokens"
    /\ search_frame.calls_left = 0
    /\ search_frame.fn = "get_char_tokens"
    /\ search_frame.symbols = <<"y", "x">>
    /\ IdOf(LEVENSHTEIN_MAP, "x") < IdOf(LEVENSHTEIN_MAP, "y")

\* ---------------------------------------------------------------------------
\* The index _add_location_resources builds from the lines of a resource file
\* ---------------------------------------------------------------------------

\* The most lines of the resource file.
MaxIndexLines == 2

\* The spellings of the file: Ab and Ab. are cleaned to the same string, 1 is
\* cleaned to the empty string.
IndexSpellings == { <<"A", "b">>, <<"A", "b", ".">>, <<"B", "a", "b">>, <<"1">> }

\* A line holds a canonical name and at most one other spelling.
IndexLines ==
    {<<canonical>> : canonical \in IndexSpellings}
        \cup {<<canonical, other>> : canonical \in IndexSpellings, other \in IndexSpellings}

RECURSIVE IndexFiles(_)
IndexFiles(n) ==
    IF n = 0 THEN {<< >>}
    ELSE {Append(lines, line) : lines \in IndexFiles(n - 1), line \in IndexLines}

IndexKey == <<"cities", <<"A", "B">> >>

\* add_city_resources({'AB'}) after import, about to build the index of a
\* file of up to MaxIndexLines lines.
InitIndex ==
    /\ InitCaches
    /\ InitVocab
    /\ bounds_frame = NoFrame /\ search_frame = NoFrame /\ find_frame = NoFrame
    /\ \E lines \in UNION {IndexFiles(n) : n \in 0..MaxIndexLines} :
          normalize_frame = [pc |-> "build", lines |-> lines]

\* _CITY_RESOURCES["cities_per_country_code_map"][country_code] =
\*     _add_location_resources(cities, clean_city)
AddLocationResources ==
    /\ normalize_frame.pc = "build"
    /\ \E built \in {add_location_resources(normalize_frame.lines, LEVENSHTEIN_MAP,
                                              TRIGRAM_MAP)} :
          /\ RESOURCES' = DictSet(RESOURCES, IndexKey, built.dict)
          /\ LEVENSHTEIN_MAP' = built.char_map
          /\ TRIGRAM_MAP' = built.trigram_map
    /\ normalize_frame' = [normalize_frame EXCEPT !.pc = "built"]
    /\ UNCHANGED <<cache_vars, bounds_frame, search_frame, find_frame>>

NextIndex == AddLocationResources

SpecIndex == InitIndex /\ [][NextIndex]_vars

\* shape[0] of the csr_matrix built from (data, (row_ind, col_ind)): one more
\* than the largest row index that has an entry.
CharMatrixRows(char_matrix) ==
    LET filled == {r \in 1..Len(char_matrix.rows) : DOMAIN char_matrix.rows[r] # {}}
    IN  IF filled = {} THEN 0 ELSE MaxOf(filled)

TrigramMatrixRows(trigram_matrix) ==
    LET filled == {r \in 1..Len(trigram_matrix.rows) : trigram_matrix.rows[r] # {}}
    IN  IF filled = {} THEN 0 ELSE MaxOf(filled)

\* A Levenshtein bucket of an index: every string has size characters, and
\* the strings, the index pairs and the rows of the char matrix are parallel.
LevenshteinBucketOk(index, size) ==
    LET part == index.levenshtein[size]
        n == Len(part.levenshtein_tokens)
    IN  /\ n > 0
        /\ Len(part.indices) = n
        /\ CharMatrixRows(part.char_matrix) = n
        /\ \A i \in 1..n :
               /\ Len(part.levenshtein_tokens[i]) = size
               /\ part.levenshtein_tokens[i]
                      = Lower(clean_geo_string(index.canonical_names[part.indices[i][2] + 1]))
               /\ part.char_matrix.rows[i]
                      = CharRow(get_char_tokens(LEVENSHTEIN_MAP, part.levenshtein_tokens[i]))

\* A trigram bucket of an index: every entry has size trigrams, and the
\* index pairs and the rows of the trigram matrix are parallel.
TrigramBucketOk(index, size) ==
    LET part == index.trigrams[size]
        n == Len(part.indices)
    IN  /\ n > 0
        /\ TrigramMatrixRows(part.trigram_tokens) = n
        /\ \A i \in 1..n :
               /\ Cardinality(part.trigram_tokens.rows[i]) = size
               /\ part.trigram_tokens.rows[i]
                      = get_trigram_tokens(
                            TRIGRAM_MAP,
                            Lower(clean_geo_string(
                                      index.canonical_names[part.indices[i][2] + 1])))

\* C25: in the index of the countries and in every index
\* _add_location_resources built, the Levenshtein bucket of key L holds
\* strings of exactly L characters, the trigram bucket of key T holds entries
\* of exactly T trigrams, and in each bucket the strings, the index pairs and
\* the rows of the matrix are of the same number and in the same order.
C25_BucketKeys ==
    \A key \in DOMAIN RESOURCES :
        /\ \A size \in DOMAIN RESOURCES[key].levenshtein :
               LevenshteinBucketOk(RESOURCES[key], size)
        /\ \A size \in DOMAIN RESOURCES[key].trigrams :
               TrigramBucketOk(RESOURCES[key], size)

\* An index built with two Levenshtein buckets and two trigram buckets, one
\* of which holds two strings.
C25_Witness ==
    /\ normalize_frame.pc = "built"
    /\ Cardinality(DOMAIN RESOURCES[IndexKey].levenshtein) = 2
    /\ Cardinality(DOMAIN RESOURCES[IndexKey].trigrams) = 2
    /\ \E size \in DOMAIN RESOURCES[IndexKey].levenshtein :
           Len(RESOURCES[IndexKey].levenshtein[size].levenshtein_tokens) = 2

\* Every index pair an index stores: in the exact map and in the buckets.
IndexPairs(index) ==
    {index.cleaned_location_map[cleaned] : cleaned \in DOMAIN index.cleaned_location_map}
        \cup UNION {SeqToSet(index.levenshtein[size].indices) :
                        size \in DOMAIN index.levenshtein}
        \cup UNION {SeqToSet(index.trigrams[size].indices) : size \in DOMAIN index.trigrams}

\* Both indexes of a pair are positions of canonical_names.
PairsInRange(index) ==
    \A pair \in IndexPairs(index) :
        /\ 0 <= pair[1] /\ pair[1] < Len(index.canonical_names)
        /\ 0 <= pair[2] /\ pair[2] < Len(index.canonical_names)

\* The canonical index of a pair is the position of the first spelling of a
\* line of the file that holds the spelling of the pair.
PairsCanonical(index, lines) ==
    \A pair \in IndexPairs(index) :
        \E k \in 1..Len(lines) :
            /\ lines[k][1] = index.canonical_names[pair[1] + 1]
            /\ index.canonical_names[pair[2] + 1] \in SeqToSet(lines[k])

\* C26: every index pair of every index lies within canonical_names, and in
\* an index _add_location_resources built the canonical index of a pair
\* refers to the first spelling of the line of the entity.
C26_IndexRange ==
    /\ \A key \in DOMAIN RESOURCES : PairsInRange(RESOURCES[key])
    /\ normalize_frame.pc = "built"
           => PairsCanonical(RESOURCES[IndexKey], normalize_frame.lines)
====
